---- MODULE Spec2Model ----
(***************************************************************************)
(* Token lifecycle coordination of the shared API layer.                   *)
(*                                                                         *)
(* Part A: the class based client, sharedAPI/src/shared/api                *)
(*   TokenManager (tokenManager.ts) and ApiClient (apiClient.ts).          *)
(*                                                                         *)
(* Execution model: JavaScript, one thread.  A step of the model is the    *)
(* code that runs between two suspension points (await).  Continuations    *)
(* of settled promises (microtasks) run before any new external event      *)
(* (a server response, a timer, an application call) is delivered; the     *)
(* external events are guarded by ~MicrotaskPending.  The storage backend  *)
(* is pluggable: MemoryStorage and WebStorage complete within the          *)
(* microtask queue, ReactNativeStorage completes from the native side      *)
(* (nativeStorage), i.e. at any later time.                                *)
(***************************************************************************)
EXTENDS Integers, Sequences, FiniteSets, TLC

----------------------------------------------------------------------------
(* Bounds of the model *)

MaxReq == 2
    \* application requests (or direct renew calls) under way at the same time
MaxOps == 2
    \* renewal operations (promises) alive at the same time
MaxTok == 2
    \* credential pairs the login / renewal endpoints hand out over a run
MaxTicks == 1
    \* clock advances over a run
MaxFaults == 1
    \* storage calls (one Promise.all of four operations) that reject over a run
MaxTimers == 2
    \* interval handles the runtime hands out before it reuses one

----------------------------------------------------------------------------
(* Values *)

NULL == 0
    \* null / absent; tokens and timestamps are positive integers
BAD_DATE == -1
    \* a timestamp string that new Date() cannot parse

Minute == 60 * 1000
T0 == 100 * Minute
    \* the clock at start, in milliseconds
TickMs == 10 * Minute
    \* one clock advance

DEFAULT_THRESHOLD_MINUTES == 10
CACHE_TTL == 1000
    \* milliseconds the token store reuses the result of an expiry check

AccessLifetimes == {15 * Minute}
RefreshLifetimes == {10 * Minute}
    \* lifetimes the server side may give to a pair it issues

STORAGE_KEYS ==
    {"accessToken", "refreshToken", "accessTokenExpiresAt", "refreshTokenExpiresAt"}

FailChoices == {{}, {"accessToken"}, STORAGE_KEYS}
    \* sets of keys whose storage operation rejects within one Promise.all

REFRESH_URL == <<"api", "auth", "refresh">>
withdrawalAllowedEndpoints == {<<"api", "user", "withdraw">>, <<"api", "auth", "logout">>}
AppUrls == {<<"api", "data">>}
    \* paths the application requests

retryAttempts == 3
    \* the configured number of retries of a request that fails with a 5xx status

ReqIds == 1..MaxReq
OpIds == 1..MaxOps
RefreshReq(o) == MaxReq + o
    \* the request that the renewal callback of operation o puts through the client
AllReqIds == 1..(MaxReq + MaxOps)
RetryKeys == AppUrls
    \* requestId of retryRequest: method and url; a path is requested with one method
ObjIds == 1..MaxReq
    \* RetryState objects alive at the same time
IsRefreshId(r) == r > MaxReq
OpOf(r) == r - MaxReq

----------------------------------------------------------------------------
VARIABLES
    accessToken, refreshToken, accessTokenExpiresAt, refreshTokenExpiresAt,
    storage,
    refreshPromise,
    ops,
    req,
    interceptorsDisabled,
    app,
    now,
    ticks,
    issued,
    faultsLeft,
    nativeStorage,
    pendingIO,
    isRefreshing,
    apiClient,
    retryStates,
    lastRefreshTime,
    lastExpiryCheckTime,
    lastExpiryCheckResult,
    proactiveRefreshInterval,
    timers,
    expiryCall

memVars == <<accessToken, refreshToken, accessTokenExpiresAt, refreshTokenExpiresAt>>
vars == <<accessToken, refreshToken, accessTokenExpiresAt, refreshTokenExpiresAt,
          storage, refreshPromise, ops, req, interceptorsDisabled, app, now, ticks, issued,
          faultsLeft, nativeStorage, pendingIO, isRefreshing, apiClient, retryStates,
          lastRefreshTime, lastExpiryCheckTime, lastExpiryCheckResult,
          proactiveRefreshInterval, timers, expiryCall>>
cacheVars == <<lastExpiryCheckTime, lastExpiryCheckResult>>
    \* the expiry-check cache of the token store
timerVars == <<proactiveRefreshInterval, timers>>
    \* the handle the token store keeps of its proactive-refresh interval, and
    \* the intervals that are active in the runtime
storeVars == <<isRefreshing, apiClient, lastRefreshTime, cacheVars, timerVars, expiryCall>>
    \* state of the zustand token store (Part B) that Part A does not have, and
    \* the last direct call of isAccessTokenExpiringSoon with what it returned
budgetVars == <<now, ticks, issued, nativeStorage, pendingIO, storeVars, retryStates>>

----------------------------------------------------------------------------
(* Pure helpers *)

\* url.includes(endpoint) on paths written as sequences of segments
UrlIncludes(url, endpoint) ==
    \E i \in 1..Len(url) :
        /\ i + Len(endpoint) - 1 <= Len(url)
        /\ SubSeq(url, i, i + Len(endpoint) - 1) = endpoint

\* variant: every path passes the allow-list test
AllowsEveryEndpoint(url) == TRUE

isWithdrawalAllowedEndpoint(url) ==
    \E endpoint \in withdrawalAllowedEndpoints : UrlIncludes(url, endpoint)

\* new Date(s).getTime(): NaN for a malformed string
IsNaN(t) == t = BAD_DATE

\* variant: the threshold instant itself does not count as expiring
ExpiringSoonAtStrict(expiresAt, minutesBeforeExpiry, t) ==
    IF expiresAt = NULL THEN FALSE
    ELSE IF IsNaN(expiresAt) THEN FALSE
    ELSE t > expiresAt - minutesBeforeExpiry * 60 * 1000

ExpiringSoonAt(expiresAt, minutesBeforeExpiry, t) ==
    IF expiresAt = NULL THEN FALSE
    ELSE IF IsNaN(expiresAt) THEN FALSE
    ELSE t >= expiresAt - minutesBeforeExpiry * 60 * 1000

isAccessTokenExpiringSoon ==
    ExpiringSoonAt(accessTokenExpiresAt, DEFAULT_THRESHOLD_MINUTES, now)

RefreshValidAt(expiresAt, t) ==
    IF expiresAt = NULL THEN FALSE
    ELSE IF IsNaN(expiresAt) THEN FALSE
    ELSE t < expiresAt

\* the pair with token tok that the server issues at time t
PairAt(tok, t, alife, rlife) ==
    [accessToken |-> tok, refreshToken |-> tok,
     accessTokenExpiresAt |-> t + alife, refreshTokenExpiresAt |-> t + rlife]

Pair(tok, alife, rlife) == PairAt(tok, now, alife, rlife)

NoPair ==
    [accessToken |-> NULL, refreshToken |-> NULL,
     accessTokenExpiresAt |-> NULL, refreshTokenExpiresAt |-> NULL]

EmptyStorage == [k \in STORAGE_KEYS |-> NULL]

\* storage after the setItem calls of setTokens, the keys in F rejecting
StorageAfterSet(st, pair, F) ==
    [k \in STORAGE_KEYS |-> IF k \in F THEN st[k] ELSE pair[k]]

\* variant: removeItem leaves the two expiry keys in place
StorageAfterRemoveKeepsExpiry(st, F) ==
    [k \in STORAGE_KEYS |->
        IF k \in F \cup {"accessTokenExpiresAt", "refreshTokenExpiresAt"} THEN st[k] ELSE NULL]

\* storage after the removeItem calls of clearTokens, the keys in F rejecting;
\* removing a key that is not there resolves (memoryStorage.ts 18-20,
\* webStorage.ts 37-43)
StorageAfterRemove(st, F) ==
    [k \in STORAGE_KEYS |-> IF k \in F THEN st[k] ELSE NULL]

----------------------------------------------------------------------------
(* Records *)

IdleReq ==
    [pc |-> "idle", url |-> <<>>, hdr |-> NULL, retry |-> FALSE,
     awaited |-> NULL, res |-> "none", hu |-> "none", out |-> "none",
     xrt |-> NULL, data |-> NoPair,
     sends |-> 0, renews |-> 0, resends |-> 0, cb |-> 0,
     rs |-> NULL, fails |-> 0]
    \* pc      where the request is in the interceptor chain
    \* hdr     Authorization header (the token after "Bearer")
    \* retry   the _retry marker of the request config
    \* awaited the renewal operation the request awaits, res its result
    \* hu      handleUnauthorized of the request: "none" not called, "skipped"
    \*         returned at once (withdrawal mode), "ok" / "failed" its removals
    \* out     how the request ended (or will end once handleUnauthorized is over)
    \* xrt     X-Refresh-Token header, data the pair of a SUCCESS body
    \* sends   times put on the wire; renews, resends: renewals and resends
    \*         started by the 401 branch; cb: unauthorized callbacks invoked
    \* rs      the RetryState object retryRequest holds while it waits
    \* fails   5xx answers received

\* retryStates (the Map) and the RetryState objects it and the waiting calls of
\* retryRequest refer to: map[key] is an object or NULL, objs[i] its attempt
EmptyLedger == [map |-> [k \in RetryKeys |-> NULL], objs |-> [i \in ObjIds |-> 0]]

NoCall == [minutes |-> 0, result |-> "none", seq |-> 0]
    \* minutes: the argument of the call, result: "true" / "false", seq: flips
    \* with every call

UnusedOp == [pc |-> "unused", result |-> "none", data |-> NoPair, stOk |-> FALSE]

IdleApp == [pc |-> "idle", data |-> NoPair, stOk |-> FALSE, cb |-> 0, ret |-> "none"]
    \* the application's own call of the token API: where it is, the pair it
    \* sets, whether its storage operations succeeded, the unauthorized callbacks
    \* invoked by initialize, and what TokenManager.initialize returned

Cap(n) == IF n >= 3 THEN 3 ELSE n + 1
    \* history counters saturate at 3

TypeOK ==
    /\ refreshPromise \in OpIds \cup {NULL}
    /\ DOMAIN ops = OpIds
    /\ DOMAIN req = AllReqIds
    /\ interceptorsDisabled \in BOOLEAN
    /\ now \in Nat /\ ticks \in 0..MaxTicks /\ issued \in 0..MaxTok
    /\ faultsLeft \in 0..MaxFaults
    /\ nativeStorage \in BOOLEAN /\ isRefreshing \in BOOLEAN /\ apiClient \in BOOLEAN

Init ==
    /\ accessToken = NULL
    /\ refreshToken = NULL
    /\ accessTokenExpiresAt = NULL
    /\ refreshTokenExpiresAt = NULL
    /\ storage = EmptyStorage
    /\ refreshPromise = NULL
    /\ ops = [o \in OpIds |-> UnusedOp]
    /\ req = [r \in AllReqIds |-> IdleReq]
    /\ interceptorsDisabled = FALSE
    /\ app = IdleApp
    /\ now = T0
    /\ ticks = 0
    /\ issued = 0
    /\ faultsLeft = 0
    /\ nativeStorage = FALSE
    /\ pendingIO = {}
    /\ retryStates = EmptyLedger
    /\ isRefreshing = FALSE
    /\ apiClient = FALSE
    /\ lastRefreshTime = NULL
    /\ lastExpiryCheckTime = NULL
    /\ lastExpiryCheckResult = "null"
    /\ proactiveRefreshInterval = NULL
    /\ timers = {}
    /\ expiryCall = NoCall

----------------------------------------------------------------------------
(* Scheduling *)

\* a continuation that is ready to run: it runs before any external event
CommitPending ==
    \/ \E r \in AllReqIds : req[r].pc = "hu_commit"
    \/ \E o \in OpIds : ops[o].pc \in {"set_commit", "clear_commit"}
    \/ app.pc # "idle"

MicrotaskPending ==
    \/ \E r \in AllReqIds :
          \/ req[r].pc = "interceptor"
          \/ req[r].pc \in {"presend_wait", "resp_wait", "renew_wait"} /\ req[r].res # "none"
    \/ \E r \in ReqIds : req[r].pc = "done"
    \/ \E o \in OpIds : ops[o].pc = "callback" /\ req[RefreshReq(o)].pc = "done"
    \/ ~nativeStorage /\ CommitPending

----------------------------------------------------------------------------
(* TokenManager.refreshTokensWithCallback, the part before its first await *)

FreeOps == {o \in OpIds : ops[o].pc = "unused"}
NewOp == CHOOSE o \in FreeOps : \A p \in FreeOps : o <= p

\* variant: the check of the refresh token (lines 136-138) left out
RenewBranchNoTokenCheck ==
    IF refreshPromise # NULL THEN "join" ELSE "start"

\* which of the three branches a call takes (tokenManager.ts 132-140)
RenewBranch ==
    IF refreshPromise # NULL THEN "join"
    ELSE IF refreshToken = NULL THEN "notfound"
    ELSE "start"

\* the call can be taken in the model: a new operation needs a free slot
CanRenew == RenewBranch = "start" => FreeOps # {}

\* the caller's record once it awaits the returned promise
Awaiting(rec, waitPc) ==
    CASE RenewBranch = "join" ->
           IF ops[refreshPromise].pc = "settled"
           THEN [rec EXCEPT !.pc = waitPc, !.res = ops[refreshPromise].result]
           ELSE [rec EXCEPT !.pc = waitPc, !.awaited = refreshPromise]
      [] RenewBranch = "notfound" ->
           [rec EXCEPT !.pc = waitPc, !.res = "TOKEN_NOT_FOUND"]
      [] OTHER ->
           [rec EXCEPT !.pc = waitPc, !.awaited = NewOp]

\* req after caller r (its record being rec) called refreshTokensWithCallback:
\* a started operation calls refreshCallback, i.e. ApiClient.refreshToken, which
\* hands the renewal request to the intercepted client (apiClient.ts 213-218)
ReqAfterRenew(r, rec, waitPc) ==
    IF RenewBranch = "start"
    THEN [req EXCEPT ![r] = Awaiting(rec, waitPc),
                     ![RefreshReq(NewOp)] =
                         [IdleReq EXCEPT !.pc = "interceptor", !.url = REFRESH_URL,
                                         !.xrt = refreshToken]]
    ELSE [req EXCEPT ![r] = Awaiting(rec, waitPc)]

OpsAfterRenew ==
    IF RenewBranch = "start"
    THEN [ops EXCEPT ![NewOp] = [UnusedOp EXCEPT !.pc = "callback"]]
    ELSE ops

PromiseAfterRenew ==
    IF RenewBranch = "start" THEN NewOp ELSE refreshPromise

\* a settled operation nobody refers to any more is dropped
GC(opsf, rp) ==
    [o \in OpIds |-> IF opsf[o].pc = "settled" /\ rp # o THEN UnusedOp ELSE opsf[o]]

----------------------------------------------------------------------------
(* Memory effects of TokenManager.setTokens / clearTokens after their await *)

\* variant: setTokens leaves the expiry of the access token as it was
MemSetStaleExpiry(pair) ==
    /\ accessToken' = pair.accessToken
    /\ refreshToken' = pair.refreshToken
    /\ accessTokenExpiresAt' = accessTokenExpiresAt
    /\ refreshTokenExpiresAt' = pair.refreshTokenExpiresAt

MemSet(pair) ==
    /\ accessToken' = pair.accessToken
    /\ refreshToken' = pair.refreshToken
    /\ accessTokenExpiresAt' = pair.accessTokenExpiresAt
    /\ refreshTokenExpiresAt' = pair.refreshTokenExpiresAt

\* variant: clearTokens keeps the refresh token in memory
MemClearKeepRefresh ==
    /\ accessToken' = NULL
    /\ refreshToken' = refreshToken
    /\ accessTokenExpiresAt' = NULL
    /\ refreshTokenExpiresAt' = NULL

MemClear ==
    /\ accessToken' = NULL
    /\ refreshToken' = NULL
    /\ accessTokenExpiresAt' = NULL
    /\ refreshTokenExpiresAt' = NULL

MemSame == UNCHANGED memVars

\* clearTokens after Promise.all (tokenManager.ts 82-86): the assignments run
\* only if no removal rejected; rp is the in-flight reference otherwise
ClearCommit(ok, rp) ==
    IF ok
    THEN /\ MemClear
         /\ refreshPromise' = NULL
         /\ ops' = GC(ops, NULL)
    ELSE /\ MemSame
         /\ refreshPromise' = rp
         /\ ops' = ops

\* a storage call whose operations on the keys F reject uses up one of the
\* faults the run still has
Fault(F) ==
    IF F = {} THEN faultsLeft' = faultsLeft
    ELSE faultsLeft > 0 /\ faultsLeft' = faultsLeft - 1

\* a request that has ended keeps its outcome and its callback count
Done(rec, out) ==
    [IdleReq EXCEPT !.pc = "done", !.out = out, !.cb = rec.cb, !.data = rec.data,
                    !.res = rec.res, !.hu = rec.hu,
                    !.fails = rec.fails]

----------------------------------------------------------------------------
(* ApiClient.handleUnauthorized (apiClient.ts 84-93) *)

\* the outcomes of the four removals that handleUnauthorized may start
HUChoices == IF interceptorsDisabled THEN {{}} ELSE FailChoices

\* variant: handleUnauthorized does not look at interceptorsDisabled
HUStartNoWithdrawalCheck(rec, out, F) ==
    [rec EXCEPT !.pc = "hu_commit", !.out = out,
                !.hu = IF F = {} THEN "ok" ELSE "failed",
                !.awaited = NULL]

\* up to the await of clearTokens; out is what the request ends with afterwards
HUStart(rec, out, F) ==
    IF interceptorsDisabled
    THEN Done([rec EXCEPT !.hu = "skipped"], out)
    ELSE [rec EXCEPT !.pc = "hu_commit", !.out = out,
                     !.hu = IF F = {} THEN "ok" ELSE "failed",
                     !.awaited = NULL]

StorageAfterHU(F) ==
    IF interceptorsDisabled THEN storage ELSE StorageAfterRemove(storage, F)

\* variant: the tokens are cleared but the unauthorized callback is not invoked
HUCommitNoCallback(r) ==
    /\ req[r].pc = "hu_commit"
    /\ ClearCommit(req[r].hu = "ok", refreshPromise)
    /\ req' = [req EXCEPT ![r] = Done(req[r], req[r].out)]
    /\ UNCHANGED <<storage, interceptorsDisabled, app, budgetVars, faultsLeft>>

\* clearTokens resumes, then the unauthorized callback is invoked
HUCommit(r) ==
    /\ req[r].pc = "hu_commit"
    /\ ClearCommit(req[r].hu = "ok", refreshPromise)
    /\ req' = [req EXCEPT ![r] = Done([req[r] EXCEPT !.cb = Cap(@)], req[r].out)]
    /\ UNCHANGED <<storage, interceptorsDisabled, app, budgetVars, faultsLeft>>

----------------------------------------------------------------------------
(* ApiClient.setupInterceptors, request interceptor (apiClient.ts 97-130) *)

\* lines 119-126: attach the current token, or reject without one
Attach(r, rec, F) ==
    IF accessToken # NULL
    THEN /\ req' = [req EXCEPT ![r] = [rec EXCEPT !.hdr = accessToken, !.pc = "wire",
                                                  !.sends = Cap(@),
                                                  !.awaited = NULL, !.res = "none"]]
         /\ F = {}
         /\ storage' = storage
         /\ faultsLeft' = faultsLeft
    ELSE /\ req' = [req EXCEPT ![r] = HUStart(rec, "no_token", F)]
         /\ F \in HUChoices
         /\ storage' = StorageAfterHU(F)
         /\ Fault(F)

ReqInterceptor(r) ==
    /\ req[r].pc = "interceptor"
    /\ IF interceptorsDisabled /\ ~isWithdrawalAllowedEndpoint(req[r].url)
       THEN /\ req' = [req EXCEPT ![r] = Done(req[r], "blocked")]
            /\ UNCHANGED <<storage, refreshPromise, ops, faultsLeft>>
       ELSE IF isAccessTokenExpiringSoon
       THEN /\ CanRenew
            /\ req' = ReqAfterRenew(r, req[r], "presend_wait")
            /\ ops' = OpsAfterRenew
            /\ refreshPromise' = PromiseAfterRenew
            /\ UNCHANGED <<storage, faultsLeft>>
       ELSE /\ \E F \in FailChoices : Attach(r, req[r], F)
            /\ UNCHANGED <<refreshPromise, ops>>
    /\ UNCHANGED <<memVars, interceptorsDisabled, app, budgetVars>>

\* lines 113-126: the awaited renewal has settled
PresendResume(r) ==
    /\ req[r].pc = "presend_wait"
    /\ req[r].res # "none"
    /\ IF req[r].res # "ok"
       THEN \E F \in HUChoices :
              /\ req' = [req EXCEPT ![r] = HUStart(req[r], "refresh_failed", F)]
              /\ storage' = StorageAfterHU(F)
              /\ Fault(F)
       ELSE \E F \in FailChoices : Attach(r, req[r], F)
    /\ UNCHANGED <<memVars, refreshPromise, ops, interceptorsDisabled, app, budgetVars>>

----------------------------------------------------------------------------
(* ApiClient.setupInterceptors, response interceptor (apiClient.ts 136-193) *)

\* variant: the _retry marker is not looked at
Response401BranchNoMarker(r) ==
    IF UrlIncludes(req[r].url, REFRESH_URL) THEN "unauthorized" ELSE "renew"

\* variant: the renewal endpoint is treated like any other path
Response401BranchNoRefreshCheck(r) ==
    IF req[r].retry THEN "unauthorized" ELSE "renew"

\* lines 142-166: what the 401 branch does with the failed request
Response401Branch(r) ==
    IF UrlIncludes(req[r].url, REFRESH_URL) THEN "unauthorized"
    ELSE IF req[r].retry THEN "unauthorized"
    ELSE "renew"

UserResponses == {"200", "401", "400"}
RefreshResponses == {"200", "200_ERROR", "200_NULL", "401", "400", "network"}
    \* 200: SUCCESS envelope; 200_ERROR: ERROR envelope; 200_NULL: the body is null;
    \* network: no response (timeout included)

ResponsesOf(r) == IF IsRefreshId(r) THEN RefreshResponses ELSE UserResponses

\* the server answers request r, and the response interceptor runs up to its
\* first await (or to its end)
ServerRespond(r, kind) ==
    /\ req[r].pc = "wire"
    /\ ~MicrotaskPending
    /\ kind \in ResponsesOf(r)
    /\ CASE kind = "401" /\ Response401Branch(r) = "renew" ->
              /\ CanRenew
              /\ req' = ReqAfterRenew(r, [req[r] EXCEPT !.retry = TRUE, !.renews = Cap(@)],
                                      "resp_wait")
              /\ ops' = OpsAfterRenew
              /\ refreshPromise' = PromiseAfterRenew
              /\ UNCHANGED <<storage, issued, faultsLeft>>
         [] kind = "401" /\ Response401Branch(r) # "renew" ->
              /\ \E F \in HUChoices :
                    /\ req' = [req EXCEPT ![r] = HUStart(req[r], "http_401", F)]
                    /\ storage' = StorageAfterHU(F)
                    /\ Fault(F)
              /\ UNCHANGED <<refreshPromise, ops, issued>>
         [] kind = "200" /\ IsRefreshId(r) ->
              /\ issued < MaxTok
              /\ \E al \in AccessLifetimes, rl \in RefreshLifetimes :
                    req' = [req EXCEPT ![r] =
                              Done([req[r] EXCEPT !.data = Pair(issued + 1, al, rl)], "200")]
              /\ issued' = issued + 1
              /\ UNCHANGED <<storage, refreshPromise, ops, faultsLeft>>
         [] OTHER ->
              /\ req' = [req EXCEPT ![r] = Done(req[r], kind)]
              /\ UNCHANGED <<storage, refreshPromise, ops, issued, faultsLeft>>
    /\ UNCHANGED <<memVars, interceptorsDisabled, app, now, ticks, nativeStorage, pendingIO, retryStates, storeVars>>

\* lines 168-179: the renewal awaited by the 401 branch has settled
RespResume(r) ==
    /\ req[r].pc = "resp_wait"
    /\ req[r].res # "none"
    /\ IF req[r].res = "ok"
       THEN /\ req' = [req EXCEPT ![r] =
                         [@ EXCEPT !.hdr = IF accessToken # NULL THEN accessToken ELSE @,
                                   !.pc = "interceptor", !.resends = Cap(@),
                                   !.awaited = NULL, !.res = "none"]]
            /\ UNCHANGED <<storage, faultsLeft>>
       ELSE \E F \in HUChoices :
              /\ req' = [req EXCEPT ![r] = HUStart(req[r], "http_401", F)]
              /\ storage' = StorageAfterHU(F)
              /\ Fault(F)
    /\ UNCHANGED <<memVars, refreshPromise, ops, interceptorsDisabled, app, budgetVars>>

----------------------------------------------------------------------------
(* The renewal operation: the async function of refreshTokensWithCallback  *)
(* (tokenManager.ts 140-157), its callback being ApiClient.refreshToken    *)
(* (apiClient.ts 213-231)                                                  *)

\* what refreshToken() hands back for the way its request ended: "ok" for
\* Ok(Token), "throw" for an exception, the error type of the Err otherwise
CallbackResult(out) ==
    CASE out = "200" -> "ok"
      [] out = "200_ERROR" -> "BUSINESS_ERROR"           \* processBusinessError
      [] out = "200_NULL" -> "throw"                      \* result.data.status on null
      [] out = "400" -> "BAD_REQUEST"                     \* processAxiosError
      [] out = "http_401" -> "UNAUTHORIZED"
      [] out = "network" -> "INTERNAL_SERVER_ERROR"       \* createNetworkError
      [] OTHER -> "UNKNOWN_ERROR"                         \* rejected by the request interceptor

\* the error the operation resolves with when the callback did not return Ok
RenewalError(cbres) == IF cbres = "throw" THEN "TOKEN_REFRESH_FAILED" ELSE cbres

\* variant: no finally block, the reference is left as it is
PromiseKept(rp) == rp

\* finally { this.refreshPromise = null }
PromiseAfterFinally(rp) == NULL

\* the operation settles: every awaiting caller receives the result
ReqAfterSettle(o, result) ==
    [r \in AllReqIds |->
        IF r = RefreshReq(o) THEN IdleReq
        ELSE IF req[r].awaited = o THEN [req[r] EXCEPT !.awaited = NULL, !.res = result]
        ELSE req[r]]

OpsAfterSettle(o, result, rp) ==
    GC([ops EXCEPT ![o] = [UnusedOp EXCEPT !.pc = "settled", !.result = result]], rp)

\* refreshCallback() has returned or thrown: setTokens or clearTokens is called
OpCallbackReturn(o) ==
    /\ ops[o].pc = "callback"
    /\ req[RefreshReq(o)].pc = "done"
    /\ LET cbres == CallbackResult(req[RefreshReq(o)].out) IN
       \E F \in FailChoices :
          /\ Fault(F)
          /\ IF cbres = "ok"
             THEN /\ storage' = StorageAfterSet(storage, req[RefreshReq(o)].data, F)
                  /\ ops' = [ops EXCEPT ![o] = [pc |-> "set_commit", result |-> "none",
                                                data |-> req[RefreshReq(o)].data,
                                                stOk |-> (F = {})]]
             ELSE /\ storage' = StorageAfterRemove(storage, F)
                  /\ ops' = [ops EXCEPT ![o] = [pc |-> "clear_commit",
                                                result |-> RenewalError(cbres),
                                                data |-> NoPair, stOk |-> (F = {})]]
    /\ UNCHANGED <<memVars, refreshPromise, req, interceptorsDisabled, app, budgetVars>>

\* setTokens resumes (lines 66-69 when no write rejected), then lines 146, 155
OpSetCommit(o) ==
    /\ ops[o].pc = "set_commit"
    /\ LET result == IF ops[o].stOk THEN "ok" ELSE "UNKNOWN_ERROR"
           rp == PromiseAfterFinally(refreshPromise) IN
       /\ IF ops[o].stOk THEN MemSet(ops[o].data) ELSE MemSame
       /\ refreshPromise' = rp
       /\ ops' = OpsAfterSettle(o, result, rp)
       /\ req' = ReqAfterSettle(o, result)
    /\ UNCHANGED <<storage, interceptorsDisabled, app, budgetVars, faultsLeft>>

\* clearTokens resumes (lines 82-86 when no removal rejected), then lines 149/153, 155
OpClearCommit(o) ==
    /\ ops[o].pc = "clear_commit"
    /\ LET result == ops[o].result
           rp == PromiseAfterFinally(IF ops[o].stOk THEN NULL ELSE refreshPromise) IN
       /\ IF ops[o].stOk THEN MemClear ELSE MemSame
       /\ refreshPromise' = rp
       /\ ops' = OpsAfterSettle(o, result, rp)
       /\ req' = ReqAfterSettle(o, result)
    /\ UNCHANGED <<storage, interceptorsDisabled, app, budgetVars, faultsLeft>>

----------------------------------------------------------------------------
(* Calls of the application: ApiClient.get/post/..., setTokens, clearTokens, *)
(* setInterceptorsDisabled (apiClient.ts 68-70, 234-257)                     *)

IdleReqs == {r \in ReqIds : req[r].pc = "idle"}

\* the application issues a batch of requests within one synchronous block
AppRequest(S, url) ==
    /\ ~MicrotaskPending
    /\ S # {} /\ S \subseteq IdleReqs
    /\ \A r \in S : \A q \in IdleReqs : q < r => q \in S
    /\ req' = [r \in AllReqIds |->
                 IF r \in S THEN [IdleReq EXCEPT !.pc = "interceptor", !.url = url[r]]
                 ELSE req[r]]
    /\ UNCHANGED <<memVars, storage, refreshPromise, ops, interceptorsDisabled, app,
                   budgetVars, faultsLeft>>

\* the promise of request (or call) r has settled: the awaiting application code
\* resumes with the outcome and the request is over
AppReceive(r) ==
    /\ req[r].pc = "done"
    /\ req' = [req EXCEPT ![r] = IdleReq]
    /\ UNCHANGED <<memVars, storage, refreshPromise, ops, interceptorsDisabled, app,
                   budgetVars, faultsLeft>>

\* setTokens(tokens) with a pair obtained from a login: up to the await
AppSetTokens ==
    /\ ~MicrotaskPending
    /\ app.pc = "idle"
    /\ issued < MaxTok
    /\ \E al \in AccessLifetimes, rl \in RefreshLifetimes, F \in FailChoices :
          /\ Fault(F)
          /\ storage' = StorageAfterSet(storage, Pair(issued + 1, al, rl), F)
          /\ app' = [app EXCEPT !.pc = "set_commit", !.data = Pair(issued + 1, al, rl),
                                !.stOk = (F = {})]
    /\ issued' = issued + 1
    /\ UNCHANGED <<memVars, refreshPromise, ops, req, interceptorsDisabled, now, ticks, nativeStorage, pendingIO, retryStates, storeVars>>

AppSetCommit ==
    /\ app.pc = "set_commit"
    /\ IF app.stOk THEN MemSet(app.data) ELSE MemSame
    /\ app' = [app EXCEPT !.pc = "idle", !.data = NoPair, !.stOk = FALSE]
    /\ UNCHANGED <<storage, refreshPromise, ops, req, interceptorsDisabled, budgetVars, faultsLeft>>

\* clearTokens(): up to the await
AppClearTokens ==
    /\ ~MicrotaskPending
    /\ app.pc = "idle"
    /\ \E F \in FailChoices :
          /\ Fault(F)
          /\ storage' = StorageAfterRemove(storage, F)
          /\ app' = [app EXCEPT !.pc = "clear_commit", !.stOk = (F = {})]
    /\ UNCHANGED <<memVars, refreshPromise, ops, req, interceptorsDisabled, budgetVars>>

AppClearCommit ==
    /\ app.pc = "clear_commit"
    /\ ClearCommit(app.stOk, refreshPromise)
    /\ app' = [app EXCEPT !.pc = "idle", !.stOk = FALSE]
    /\ UNCHANGED <<storage, req, interceptorsDisabled, budgetVars, faultsLeft>>

setInterceptorsDisabled(disabled) ==
    /\ ~MicrotaskPending
    /\ disabled # interceptorsDisabled
    /\ interceptorsDisabled' = disabled
    /\ UNCHANGED <<memVars, storage, refreshPromise, ops, req, app, budgetVars, faultsLeft>>

\* the clock advances
Tick ==
    /\ ~MicrotaskPending
    /\ ticks < MaxTicks
    /\ now' = now + TickMs
    /\ ticks' = ticks + 1
    /\ UNCHANGED <<memVars, storage, refreshPromise, ops, req, interceptorsDisabled, app,
                   issued, faultsLeft, nativeStorage, pendingIO, retryStates, storeVars>>

----------------------------------------------------------------------------
(* Part A, the client in regular operation: ApiClient over TokenManager,    *)
(* storage that completes within the microtask queue and does not fail,     *)
(* withdrawal mode off                                                      *)

\* the steps of the request pipeline and of the renewal operation
PipelineStep ==
    \/ \E S \in SUBSET ReqIds : \E url \in [S -> AppUrls] : AppRequest(S, url)
    \/ \E r \in AllReqIds : ReqInterceptor(r)
    \/ \E r \in AllReqIds : PresendResume(r)
    \/ \E r \in AllReqIds : HUCommit(r)
    \/ \E r \in AllReqIds : \E kind \in ResponsesOf(r) : ServerRespond(r, kind)
    \/ \E r \in AllReqIds : RespResume(r)
    \/ \E r \in ReqIds : AppReceive(r)
    \/ \E o \in OpIds : OpCallbackReturn(o)
    \/ \E o \in OpIds : OpSetCommit(o)
    \/ \E o \in OpIds : OpClearCommit(o)

\* login and logout by the application
TokenCalls ==
    \/ AppSetTokens
    \/ AppSetCommit
    \/ AppClearTokens
    \/ AppClearCommit

Next ==
    \/ PipelineStep
    \/ TokenCalls
    \/ Tick

Spec == Init /\ [][Next]_vars

\* Every continuation that is ready runs (once ready it stays ready until it
\* runs), and every request on the wire is answered, by the server or by the
\* timeout of the transport, however often other work comes in between
Fairness ==
    /\ \A r \in AllReqIds :
          /\ WF_vars(ReqInterceptor(r))
          /\ WF_vars(PresendResume(r))
          /\ WF_vars(HUCommit(r))
          /\ WF_vars(RespResume(r))
          /\ SF_vars(\E kind \in ResponsesOf(r) : ServerRespond(r, kind))
    /\ \A r \in ReqIds : WF_vars(AppReceive(r))
    /\ \A o \in OpIds :
          /\ WF_vars(OpCallbackReturn(o))
          /\ WF_vars(OpSetCommit(o))
          /\ WF_vars(OpClearCommit(o))
    /\ WF_vars(AppSetCommit)
    /\ WF_vars(AppClearCommit)

FairSpec == Init /\ [][Next]_vars /\ Fairness

----------------------------------------------------------------------------
(* Part A, the client of a logged-in user with the application switching    *)
(* withdrawal mode: the state after setTokens(pair) of the login            *)

LoginPair == PairAt(1, T0, 15 * Minute, 10 * Minute)

InitW ==
    /\ accessToken = LoginPair.accessToken
    /\ refreshToken = LoginPair.refreshToken
    /\ accessTokenExpiresAt = LoginPair.accessTokenExpiresAt
    /\ refreshTokenExpiresAt = LoginPair.refreshTokenExpiresAt
    /\ storage = StorageAfterSet(EmptyStorage, LoginPair, {})
    /\ refreshPromise = NULL
    /\ ops = [o \in OpIds |-> UnusedOp]
    /\ req = [r \in AllReqIds |-> IdleReq]
    /\ interceptorsDisabled = FALSE
    /\ app = IdleApp
    /\ now = T0
    /\ ticks = 0
    /\ issued = 1
    /\ faultsLeft = 0
    /\ nativeStorage = FALSE
    /\ pendingIO = {}
    /\ retryStates = EmptyLedger
    /\ isRefreshing = FALSE
    /\ apiClient = FALSE
    /\ lastRefreshTime = NULL
    /\ lastExpiryCheckTime = NULL
    /\ lastExpiryCheckResult = "null"
    /\ proactiveRefreshInterval = NULL
    /\ timers = {}
    /\ expiryCall = NoCall

NextW ==
    \/ PipelineStep
    \/ Tick
    \/ \E d \in BOOLEAN : setInterceptorsDisabled(d)

SpecW == InitW /\ [][NextW]_vars

\* the same client with the application also requesting an allow-listed path
WithdrawalUrls == AppUrls \cup {<<"api", "user", "withdraw">>}

NextWd ==
    \/ NextW
    \/ \E S \in SUBSET ReqIds : \E url \in [S -> WithdrawalUrls] : AppRequest(S, url)

SpecWd == InitW /\ [][NextWd]_vars

----------------------------------------------------------------------------
(* Part A, the client with storage calls that may reject, withdrawal mode  *)
(* and the clock                                                            *)

InitFull ==
    /\ accessToken = NULL
    /\ refreshToken = NULL
    /\ accessTokenExpiresAt = NULL
    /\ refreshTokenExpiresAt = NULL
    /\ storage = EmptyStorage
    /\ refreshPromise = NULL
    /\ ops = [o \in OpIds |-> UnusedOp]
    /\ req = [r \in AllReqIds |-> IdleReq]
    /\ interceptorsDisabled = FALSE
    /\ app = IdleApp
    /\ now = T0
    /\ ticks = 0
    /\ issued = 0
    /\ faultsLeft = MaxFaults
    /\ nativeStorage = FALSE
    /\ pendingIO = {}
    /\ retryStates = EmptyLedger
    /\ isRefreshing = FALSE
    /\ apiClient = FALSE
    /\ lastRefreshTime = NULL
    /\ lastExpiryCheckTime = NULL
    /\ lastExpiryCheckResult = "null"
    /\ proactiveRefreshInterval = NULL
    /\ timers = {}
    /\ expiryCall = NoCall

NextFull ==
    \/ PipelineStep
    \/ TokenCalls
    \/ Tick
    \/ \E d \in BOOLEAN : setInterceptorsDisabled(d)

SpecFull == InitFull /\ [][NextFull]_vars

----------------------------------------------------------------------------
(* Part A, TokenManager on its own (tokenManager.ts): callers invoke        *)
(* refreshTokensWithCallback with a callback of their own, over either kind *)
(* of storage backend                                                       *)

CallbackOutcomes == {"200", "400", "200_NULL"}
    \* the injected callback returns Ok(pair), returns Err, or throws

\* caller c calls refreshTokensWithCallback(refreshCallback)
TMRenew(c) ==
    /\ req[c].pc = "idle"
    /\ CanRenew
    /\ req' = ReqAfterRenew(c, req[c], "renew_wait")
    /\ ops' = OpsAfterRenew
    /\ refreshPromise' = PromiseAfterRenew
    /\ UNCHANGED <<memVars, storage, interceptorsDisabled, app, budgetVars, faultsLeft>>

\* the callback of operation o starts its exchange
TMCallbackBegin(o) ==
    /\ ops[o].pc = "callback"
    /\ req[RefreshReq(o)].pc = "interceptor"
    /\ req' = [req EXCEPT ![RefreshReq(o)] = [@ EXCEPT !.pc = "wire", !.sends = Cap(@)]]
    /\ UNCHANGED <<memVars, storage, refreshPromise, ops, interceptorsDisabled, app,
                   budgetVars, faultsLeft>>

\* the callback of operation o returns or throws
TMCallbackEnd(o, kind) ==
    /\ ops[o].pc = "callback"
    /\ req[RefreshReq(o)].pc = "wire"
    /\ ~MicrotaskPending
    /\ kind \in CallbackOutcomes
    /\ IF kind = "200"
       THEN /\ issued < MaxTok
            /\ \E al \in AccessLifetimes, rl \in RefreshLifetimes :
                  req' = [req EXCEPT ![RefreshReq(o)] =
                            Done([@ EXCEPT !.data = Pair(issued + 1, al, rl)], "200")]
            /\ issued' = issued + 1
       ELSE /\ req' = [req EXCEPT ![RefreshReq(o)] = Done(@, kind)]
            /\ issued' = issued
    /\ UNCHANGED <<memVars, storage, refreshPromise, ops, interceptorsDisabled, app,
                   now, ticks, nativeStorage, pendingIO, retryStates, storeVars, faultsLeft>>

\* the promise returned to caller c has settled and c resumes
TMResolve(c) ==
    /\ req[c].pc = "renew_wait"
    /\ req[c].res # "none"
    /\ req' = [req EXCEPT ![c] = Done(@, req[c].res)]
    /\ UNCHANGED <<memVars, storage, refreshPromise, ops, interceptorsDisabled, app,
                   budgetVars, faultsLeft>>

InitTM ==
    /\ accessToken = NULL
    /\ refreshToken = NULL
    /\ accessTokenExpiresAt = NULL
    /\ refreshTokenExpiresAt = NULL
    /\ storage = EmptyStorage
    /\ refreshPromise = NULL
    /\ ops = [o \in OpIds |-> UnusedOp]
    /\ req = [r \in AllReqIds |-> IdleReq]
    /\ interceptorsDisabled = FALSE
    /\ app = IdleApp
    /\ now = T0
    /\ ticks = 0
    /\ issued = 0
    /\ faultsLeft = MaxFaults
    /\ nativeStorage = TRUE
    /\ pendingIO = {}
    /\ retryStates = EmptyLedger
    /\ isRefreshing = FALSE
    /\ apiClient = FALSE
    /\ lastRefreshTime = NULL
    /\ lastExpiryCheckTime = NULL
    /\ lastExpiryCheckResult = "null"
    /\ proactiveRefreshInterval = NULL
    /\ timers = {}
    /\ expiryCall = NoCall

NextTM ==
    \/ \E c \in ReqIds : TMRenew(c)
    \/ \E c \in ReqIds : TMResolve(c)
    \/ \E c \in ReqIds : AppReceive(c)
    \/ \E o \in OpIds : TMCallbackBegin(o)
    \/ \E o \in OpIds : \E kind \in CallbackOutcomes : TMCallbackEnd(o, kind)
    \/ \E o \in OpIds : OpCallbackReturn(o)
    \/ \E o \in OpIds : OpSetCommit(o)
    \/ \E o \in OpIds : OpClearCommit(o)
    \/ AppSetTokens
    \/ AppSetCommit
    \/ AppClearTokens
    \/ AppClearCommit

SpecTM == InitTM /\ [][NextTM]_vars

----------------------------------------------------------------------------
(* Properties of the renewal coordination (TokenManager) *)

PendingCallbacks == {o \in OpIds : ops[o].pc = "callback"}
    \* operations whose callback has been invoked and has not returned yet

\* C1 (SpecTM): the calls of refreshTokensWithCallback made before the first of
\* them has settled share one execution of the callback: all callers that
\* await a renewal at the same time await the same operation.
C1_SingleFlight ==
    \A c1, c2 \in ReqIds :
        (req[c1].awaited # NULL /\ req[c2].awaited # NULL)
            => req[c1].awaited = req[c2].awaited

\* C2 (Spec): in every reachable state at most one execution of the renewal
\* callback is pending (invoked and not yet returned).
C2_AtMostOnePending == Cardinality(PendingCallbacks) <= 1

\* C4 (SpecTM): when an operation settles (callback Ok, Err or throw, or
\* setTokens failing) refreshPromise is null in the very step in which its
\* waiters receive the result, and no settled operation is ever left in
\* refreshPromise: a later call joins a pending operation or, with a refresh
\* token present, invokes the callback anew.
C4_SettledNotInFlight ==
    /\ [](\A o \in OpIds : ops[o].pc # "settled")
    /\ [][\A c \in ReqIds :
             (req[c].res = "none" /\ req'[c].res \notin {"none", "TOKEN_NOT_FOUND"})
                 => refreshPromise' = NULL]_vars

\* a caller is about to resume with the result of a renewal whose setTokens
\* succeeded, the reference is null and a refresh token is present
C4_Witness ==
    \E c \in ReqIds :
        /\ req[c].pc = "renew_wait"
        /\ req[c].res = "ok"
        /\ refreshPromise = NULL
        /\ refreshToken # NULL

\* C6 (SpecTM): a call of refreshTokensWithCallback made with no operation in
\* refreshPromise and no refresh token resolves to TOKEN_NOT_FOUND, invokes no
\* callback, and leaves the four memory fields, the persisted fields and
\* refreshPromise as they were.
C6_NotFoundNoEffect ==
    [][\A c \in ReqIds :
          (/\ req[c].pc = "idle"
           /\ req'[c].pc = "renew_wait"
           /\ refreshPromise = NULL
           /\ refreshToken = NULL)
          => /\ req'[c].res = "TOKEN_NOT_FOUND"
             /\ req'[c].awaited = NULL
             /\ ops' = ops
             /\ \A o \in OpIds : req'[RefreshReq(o)] = req[RefreshReq(o)]
             /\ UNCHANGED <<memVars, storage, refreshPromise>>]_vars

\* a caller holds the TOKEN_NOT_FOUND failure while no token is stored
C6_Witness ==
    \E c \in ReqIds :
        /\ req[c].pc = "renew_wait"
        /\ req[c].res = "TOKEN_NOT_FOUND"
        /\ refreshToken = NULL
        /\ PendingCallbacks = {}

----------------------------------------------------------------------------
(* Properties of the request pipeline (ApiClient) *)

\* C3 (FairSpec): every renewal operation that begins settles and frees the
\* in-flight slot, and every request that awaits a renewal before being sent
\* is eventually sent or rejected.
C3_RenewalSettles ==
    /\ \A o \in OpIds : (ops[o].pc # "unused") ~> (ops[o].pc = "unused")
    /\ \A r \in AllReqIds :
          (req[r].pc = "presend_wait") ~> (req[r].pc \in {"wire", "done", "idle"})

\* C7 (Spec): two requests that are both in the 401 branch waiting for a
\* renewal wait for the same renewal operation (one renewal call for both).
C7_OneRenewalForBoth ==
    \A r1, r2 \in ReqIds :
        (/\ req[r1].pc = "resp_wait" /\ req[r1].awaited # NULL
         /\ req[r2].pc = "resp_wait" /\ req[r2].awaited # NULL)
            => req[r1].awaited = req[r2].awaited

\* C8 (Spec): over the life of a request that is not the renewal request the
\* 401 branch starts at most one renewal and at most one resend; the marker is
\* set exactly when the renewal was started, a resend needs that renewal, the
\* resent request carries the access token of the moment of the resend, and a
\* request that ends by a 401 after its resend went through handleUnauthorized
\* without a second renewal.
C8_OneRenewAndResend ==
    \A r \in ReqIds :
        /\ req[r].renews <= 1
        /\ req[r].resends <= req[r].renews
        /\ req[r].sends <= 1 + req[r].resends
        /\ req[r].retry <=> (req[r].renews = 1)
        /\ req[r].pc = "resp_wait" => req[r].resends = 0
        /\ (req[r].pc = "interceptor" /\ req[r].resends = 1) => req[r].hdr = accessToken
        /\ (req[r].pc = "hu_commit" /\ req[r].resends = 1)
              => (req[r].out = "http_401" /\ req[r].awaited = NULL)

\* a request has been renewed for and resent, has got a second 401 and is in
\* handleUnauthorized
C8_Witness ==
    \E r \in ReqIds :
        /\ req[r].pc = "hu_commit"
        /\ req[r].out = "http_401"
        /\ req[r].retry
        /\ req[r].renews = 1
        /\ req[r].resends = 1
        /\ req[r].sends = 2

\* C9 (Spec): the renewal request is never renewed for and never resent by the
\* response handler: its marker stays unset, it is put on the wire at most
\* once, and a 401 answer takes it to handleUnauthorized.
C9_RefreshEndpointTerminal ==
    \A o \in OpIds :
        LET rr == req[RefreshReq(o)] IN
        /\ rr.renews = 0
        /\ rr.resends = 0
        /\ ~rr.retry
        /\ rr.sends <= 1
        /\ rr.pc # "resp_wait"
        /\ rr.out = "http_401" => (rr.pc \in {"hu_commit", "done"} /\ rr.hu # "none")

\* the renewal request has been answered 401 and handleUnauthorized is under way
C9_Witness ==
    \E o \in OpIds :
        /\ ops[o].pc = "callback"
        /\ req[RefreshReq(o)].pc = "hu_commit"
        /\ req[RefreshReq(o)].out = "http_401"
        /\ req[RefreshReq(o)].sends = 1

Absent ==
    /\ accessToken = NULL
    /\ refreshToken = NULL
    /\ accessTokenExpiresAt = NULL
    /\ refreshTokenExpiresAt = NULL
    /\ storage = EmptyStorage

\* requests that end because the renewal they awaited was answered HTTP 400
EndedBy400 ==
    {r \in ReqIds : req[r].pc = "done" /\ req[r].res = "BAD_REQUEST"}

----------------------------------------------------------------------------
(* Part A, recovery from 5xx answers: retryRequest (util/retry) called by   *)
(* the response interceptor (apiClient.ts 182-191)                          *)

Inc(n) == IF n >= retryAttempts + 2 THEN n ELSE n + 1
    \* the counter of 5xx answers stops at retryAttempts + 2

\* const requestId = `${config.method?.toUpperCase()}_${config.url}`
RequestId(r) == req[r].url

\* a ledger in which the objects nobody refers to any more are dropped
LedgerGC(map, objs, reqf) ==
    [map |-> map,
     objs |-> [i \in ObjIds |->
                 IF (\E k \in RetryKeys : map[k] = i) \/ (\E r \in AllReqIds : reqf[r].rs = i)
                 THEN objs[i] ELSE 0]]

\* the object of a new RetryState { attempt: 0, ... }
FreshObj ==
    CHOOSE i \in ObjIds :
        /\ \A k \in RetryKeys : retryStates.map[k] # i
        /\ \A r \in AllReqIds : req[r].rs # i

\* lines 24-31: the RetryState the call works on
StateOf(r) ==
    IF retryStates.map[RequestId(r)] # NULL THEN retryStates.map[RequestId(r)] ELSE FreshObj

\* variant: the attempt that reaches the maximum is not made
ExhaustedOneEarlier(attempt) == attempt + 1 >= retryAttempts

\* lines 33-37: if (retryState.attempt >= retryState.maxAttempts)
Exhausted(attempt) == attempt >= retryAttempts

\* the server answers request r with a 5xx status: the response interceptor
\* calls retryRequest, which runs up to its await (lines 17-57) or returns false
ServerFail5xx(r) ==
    /\ req[r].pc = "wire"
    /\ ~MicrotaskPending
    /\ IF Exhausted(retryStates.objs[StateOf(r)])
       THEN LET reqf == [req EXCEPT ![r] = Done([req[r] EXCEPT !.fails = Inc(@)], "503")] IN
            /\ req' = reqf
            /\ retryStates' = LedgerGC([retryStates.map EXCEPT ![RequestId(r)] = NULL],
                                       retryStates.objs, reqf)
       ELSE /\ req' = [req EXCEPT ![r] = [@ EXCEPT !.pc = "retry_wait", !.rs = StateOf(r),
                                                   !.fails = Inc(@)]]
            /\ retryStates' = retryStates
    /\ UNCHANGED <<memVars, storage, refreshPromise, ops, interceptorsDisabled, app,
                   now, ticks, issued, nativeStorage, pendingIO, storeVars, faultsLeft>>

\* variant: the end of the delay also drops the reference to the renewal
RetryResumeDropsRenewal(r) ==
    /\ req[r].pc = "retry_wait"
    /\ ~MicrotaskPending
    /\ LET reqf == [req EXCEPT ![r] = [@ EXCEPT !.pc = "interceptor", !.rs = NULL]] IN
       /\ req' = reqf
       /\ retryStates' =
             LedgerGC([retryStates.map EXCEPT ![RequestId(r)] = req[r].rs],
                      [retryStates.objs EXCEPT ![req[r].rs] = @ + 1], reqf)
    /\ refreshPromise' = NULL
    /\ UNCHANGED <<memVars, storage, ops, interceptorsDisabled, app,
                   now, ticks, issued, nativeStorage, pendingIO, storeVars, faultsLeft>>

\* the delay is over (lines 59-64): the attempt is counted, the state is put
\* into the Map, and the interceptor hands the request to the client again
RetryResume(r) ==
    /\ req[r].pc = "retry_wait"
    /\ ~MicrotaskPending
    /\ LET reqf == [req EXCEPT ![r] = [@ EXCEPT !.pc = "interceptor", !.rs = NULL]] IN
       /\ req' = reqf
       /\ retryStates' =
             LedgerGC([retryStates.map EXCEPT ![RequestId(r)] = req[r].rs],
                      [retryStates.objs EXCEPT ![req[r].rs] = @ + 1], reqf)
    /\ UNCHANGED <<memVars, storage, refreshPromise, ops, interceptorsDisabled, app,
                   now, ticks, issued, nativeStorage, pendingIO, storeVars, faultsLeft>>

\* the client of a logged-in user whose server may answer the requests of the
\* application with 5xx
NextRetry ==
    \/ PipelineStep
    \/ Tick
    \/ \E r \in ReqIds : ServerFail5xx(r)
    \/ \E r \in ReqIds : RetryResume(r)

SpecRetry == InitW /\ [][NextRetry]_vars

\* the same client while the credential pair stays valid and the server answers
\* every request with 5xx: requests are sent, retried and handed back
NextRetryOnly ==
    \/ \E S \in SUBSET ReqIds : \E url \in [S -> AppUrls] : AppRequest(S, url)
    \/ \E r \in ReqIds : ReqInterceptor(r)
    \/ \E r \in ReqIds : ServerFail5xx(r)
    \/ \E r \in ReqIds : RetryResume(r)
    \/ \E r \in ReqIds : AppReceive(r)

SpecRetryOnly == InitW /\ [][NextRetryOnly]_vars

\* Every continuation that is ready runs, every backoff delay ends, and every
\* request on the wire is answered (with any status, 5xx included)
FairnessRetry ==
    /\ \A r \in AllReqIds :
          /\ WF_vars(ReqInterceptor(r))
          /\ WF_vars(PresendResume(r))
          /\ WF_vars(HUCommit(r))
          /\ WF_vars(RespResume(r))
    /\ \A o \in OpIds :
          SF_vars(\E kind \in RefreshResponses : ServerRespond(RefreshReq(o), kind))
    /\ \A r \in ReqIds :
          /\ SF_vars((\E kind \in UserResponses : ServerRespond(r, kind)) \/ ServerFail5xx(r))
          /\ SF_vars(RetryResume(r))
          /\ WF_vars(AppReceive(r))
    /\ \A o \in OpIds :
          /\ WF_vars(OpCallbackReturn(o))
          /\ WF_vars(OpSetCommit(o))
          /\ WF_vars(OpClearCommit(o))

FairRetry == InitW /\ [][NextRetry]_vars /\ FairnessRetry

----------------------------------------------------------------------------
(* Properties of the outcome of a renewal (TokenManager) *)

\* the four memory fields are null
MemAbsent ==
    /\ accessToken = NULL
    /\ refreshToken = NULL
    /\ accessTokenExpiresAt = NULL
    /\ refreshTokenExpiresAt = NULL

\* operation o settles with a failure of its callback in this step
FailureSettles(o) == ops[o].pc = "clear_commit" /\ ops'[o].pc # "clear_commit"

C12_StorageFailureClears ==
    [][\A o \in OpIds :
          (ops[o].pc = "set_commit" /\ ~ops[o].stOk /\ ops'[o].pc # "set_commit")
              => /\ MemAbsent'
                 /\ \A c \in ReqIds :
                       req[c].awaited = o => req'[c].res \notin {"ok", "none"}]_vars

\* the four memory fields and the four persisted fields equal pair
HoldsPair(pair) ==
    /\ accessToken = pair.accessToken
    /\ refreshToken = pair.refreshToken
    /\ accessTokenExpiresAt = pair.accessTokenExpiresAt
    /\ refreshTokenExpiresAt = pair.refreshTokenExpiresAt
    /\ storage = pair

----------------------------------------------------------------------------
(* Properties of the recovery from 5xx answers *)

\* the attempt the ledger holds for the key of request r (0 without an entry)
LedgerAttempt(r) ==
    IF retryStates.map[RequestId(r)] = NULL THEN 0
    ELSE retryStates.objs[retryStates.map[RequestId(r)]]

\* request r is the only request of the application under way
Alone(r) == \A q \in ReqIds \ {r} : req[q].pc = "idle"

\* C14 (SpecRetry): a request that is alone, has been answered 5xx twice and
\* resent twice (the ledger counts 2 for its key) and is answered 5xx for the
\* third time ends with that failure without being resent, and the ledger
\* holds no entry for its key.
C14_ThirdFailurePropagated ==
    [][\A r \in ReqIds :
          (/\ req[r].pc = "wire" /\ req[r].fails = 2 /\ req'[r].fails = 3
           /\ Alone(r)
           /\ LedgerAttempt(r) = 2)
          => /\ req'[r].pc = "done"
             /\ req'[r].out = "503"
             /\ retryStates'.map[RequestId(r)] = NULL]_vars

\* C15 (SpecRetry): when a request of the application is answered with
\* success, the ledger holds no entry for its key afterwards.
C15_SuccessRemovesEntry ==
    [][\A r \in ReqIds :
          (req[r].pc = "wire" /\ req'[r].pc = "done" /\ req'[r].out = "200")
              => retryStates'.map[RequestId(r)] = NULL]_vars

\* C16 (SpecRetry): whatever the server answers and whatever other requests
\* share its ledger key, a request of the application is answered 5xx at most
\* retryAttempts + 1 times (the answers the ledger lets a request have: one per
\* authorized retry and the one that is propagated) before it ends.
C16_BoundedResends ==
    \A r \in ReqIds : req[r].fails <= retryAttempts + 1

\* the same as a property of the runs (FairRetry): every request of the
\* application that is under way reaches an end
RequestsEnd ==
    \A r \in ReqIds : (req[r].pc # "idle") ~> (req[r].pc = "done")

----------------------------------------------------------------------------
(* Properties of the pre-send phase (request interceptor) *)

\* requests rejected because the renewal awaited before sending failed
RejectedAtExpiryCheck ==
    {r \in ReqIds : req[r].pc = "done" /\ req[r].out = "refresh_failed"}

OffAllowList(r) == req[r].url \in {<<"api", "data">>, REFRESH_URL}
OnAllowList(r) == req[r].url = <<"api", "user", "withdraw">>

\* this step hands request r to the transport
PutOnWire(r) == req[r].pc # "wire" /\ req'[r].pc = "wire"

\* this step is the request interceptor of r running up to its first await
InterceptorRuns(r) == req[r].pc = "interceptor" /\ req'[r].pc # "interceptor"

EndedUnauthenticated(r) ==
    /\ req[r].pc = "done"
    /\ req[r].out \in {"refresh_failed", "http_401", "blocked"}

\* C20 (SpecW): the unauthorized callback has been invoked for every request
\* that ended on a trigger of the unauthenticated state: a failed renewal or
\* a block by withdrawal mode.
C20_CallbackForEachTrigger ==
    \A r \in ReqIds : EndedUnauthenticated(r) => req[r].cb >= 1

----------------------------------------------------------------------------
(* Part B: the zustand token store, typescript/tokenStore.ts, over          *)
(* expo-secure-store (a native, asynchronous backend).  Its renewal request *)
(* is a public endpoint of the store variant's interceptors and goes        *)
(* straight to the wire.                                                    *)

Bool(b) == IF b THEN "true" ELSE "false"

\* thresholds the application passes: the default, and one that puts the
\* threshold instant of a fresh pair at the present
Thresholds == {DEFAULT_THRESHOLD_MINUTES, 15}

TimerIds == 1..MaxTimers

\* period of the proactive refresh interval (line 242)
PROACTIVE_PERIOD == 5 * Minute

\* timers holds the running intervals of the runtime, each with its handle and
\* the time of its next tick
\* variant: clearInterval has no effect
ClearIntervalLeaks(ts, handle) == ts

\* clearInterval(handle); a null handle is not passed (lines 139, 220, 349)
ClearInterval(ts, handle) == {t \in ts : t.id # handle}

FreeTimers == TimerIds \ ({t.id : t \in timers} \cup {proactiveRefreshInterval})
NewTimer == CHOOSE i \in FreeTimers : \A j \in FreeTimers : i <= j

\* startProactiveRefresh (lines 216-244): the running interval is stopped, a new
\* one is started and its handle kept
startProactiveRefresh ==
    /\ timers' = ClearInterval(timers, proactiveRefreshInterval)
                    \cup {[id |-> NewTimer, due |-> now + PROACTIVE_PERIOD]}
    /\ proactiveRefreshInterval' = NewTimer

\* lines 138-141 and 151 of clearTokens, 348-351 and 361 of resetToken
StopProactiveRefresh ==
    /\ timers' = ClearInterval(timers, proactiveRefreshInterval)
    /\ proactiveRefreshInterval' = NULL

\* lines 152-153 of clearTokens, 362-363 of resetToken
ResetCache ==
    /\ lastExpiryCheckTime' = NULL
    /\ lastExpiryCheckResult' = "null"

\* variant: the cached result is never used
CacheHitNever == FALSE

\* line 165: the cached result is younger than the time to live
CacheHit ==
    /\ lastExpiryCheckTime # NULL
    /\ now - lastExpiryCheckTime < CACHE_TTL
    /\ lastExpiryCheckResult # "null"

\* isAccessTokenExpiringSoon(minutesBeforeExpiry) of the store (lines 160-190):
\* what it returns, and what it does to the cache
StoreExpiringSoon(minutesBeforeExpiry) ==
    IF CacheHit THEN lastExpiryCheckResult
    ELSE Bool(ExpiringSoonAt(accessTokenExpiresAt, minutesBeforeExpiry, now))

CacheAfterCheck(minutesBeforeExpiry) ==
    IF CacheHit THEN UNCHANGED cacheVars
    ELSE /\ lastExpiryCheckTime' = now
         /\ lastExpiryCheckResult' =
                Bool(ExpiringSoonAt(accessTokenExpiresAt, minutesBeforeExpiry, now))

StoreResponses == {"200", "400", "network"}
    \* what wrapApiCall gets for the renewal request: a SUCCESS envelope, an
    \* error status, no response

\* which way a call of refreshTokens goes (tokenStore.ts 247-266)
StoreBranch ==
    IF refreshPromise # NULL THEN "join"
    ELSE IF refreshToken = NULL THEN "NOT_FOUND"
    ELSE IF ~apiClient THEN "REFRESH_FAILED"
    ELSE "start"

\* caller c calls refreshTokens(): lines 247-301 up to the first await
StoreRefreshTokens(c) ==
    /\ req[c].pc = "idle"
    /\ StoreBranch = "join" \/ FreeOps # {}
    /\ CASE StoreBranch = "join" ->
              /\ req' = [req EXCEPT ![c] =
                           IF ops[refreshPromise].pc = "settled"
                           THEN [@ EXCEPT !.pc = "renew_wait",
                                          !.res = ops[refreshPromise].result]
                           ELSE [@ EXCEPT !.pc = "renew_wait", !.awaited = refreshPromise]]
              /\ UNCHANGED <<ops, refreshPromise, isRefreshing>>
         [] StoreBranch = "start" ->
              /\ isRefreshing' = TRUE
              /\ ops' = [ops EXCEPT ![NewOp] = [UnusedOp EXCEPT !.pc = "callback"]]
              /\ req' = [req EXCEPT ![c] = [@ EXCEPT !.pc = "renew_wait", !.awaited = NewOp],
                                    ![RefreshReq(NewOp)] =
                                        [IdleReq EXCEPT !.pc = "wire", !.url = REFRESH_URL,
                                                        !.xrt = refreshToken, !.sends = 1]]
              /\ refreshPromise' = NewOp
         [] OTHER ->
              \* the async function has returned Err before its try block: the
              \* promise is settled when line 299 puts it into the store
              /\ ops' = [ops EXCEPT ![NewOp] = [UnusedOp EXCEPT !.pc = "settled",
                                                                !.result = StoreBranch]]
              /\ req' = [req EXCEPT ![c] = [@ EXCEPT !.pc = "renew_wait", !.res = StoreBranch]]
              /\ refreshPromise' = NewOp
              /\ UNCHANGED isRefreshing
    /\ UNCHANGED <<memVars, storage, interceptorsDisabled, app, now, ticks, issued,
                   nativeStorage, pendingIO, retryStates, apiClient, faultsLeft,
                   lastRefreshTime, cacheVars, timerVars, expiryCall>>

\* the renewal request of operation o is answered
StoreServerRespond(o, kind) ==
    /\ ops[o].pc = "callback"
    /\ req[RefreshReq(o)].pc = "wire"
    /\ ~MicrotaskPending
    /\ kind \in StoreResponses
    /\ IF kind = "200"
       THEN /\ issued < MaxTok
            /\ \E al \in AccessLifetimes, rl \in RefreshLifetimes :
                  req' = [req EXCEPT ![RefreshReq(o)] =
                            Done([@ EXCEPT !.data = Pair(issued + 1, al, rl)], "200")]
            /\ issued' = issued + 1
       ELSE /\ req' = [req EXCEPT ![RefreshReq(o)] = Done(@, kind)]
            /\ issued' = issued
    /\ UNCHANGED <<memVars, storage, refreshPromise, ops, interceptorsDisabled, app,
                   now, ticks, nativeStorage, pendingIO, retryStates, storeVars, faultsLeft>>

\* wrapApiCall has returned (line 269): setTokens or clearTokens is called
StoreOpReturn(o) ==
    /\ ops[o].pc = "callback"
    /\ req[RefreshReq(o)].pc = "done"
    /\ \E F \in FailChoices :
          /\ Fault(F)
          /\ IF req[RefreshReq(o)].out = "200"
             THEN /\ storage' = StorageAfterSet(storage, req[RefreshReq(o)].data, F)
                  /\ ops' = [ops EXCEPT ![o] = [pc |-> "set_commit", result |-> "none",
                                                data |-> req[RefreshReq(o)].data,
                                                stOk |-> (F = {})]]
             ELSE /\ storage' = StorageAfterRemove(storage, F)
                  /\ ops' = [ops EXCEPT ![o] = [pc |-> "clear_commit",
                                                result |-> "REFRESH_FAILED",
                                                data |-> NoPair, stOk |-> (F = {})]]
    /\ UNCHANGED <<memVars, refreshPromise, req, interceptorsDisabled, app, budgetVars>>

\* setTokens resumes (lines 113-122), then lines 278-285 and the finally block
StoreOpSetCommit(o) ==
    /\ ops[o].pc = "set_commit"
    /\ LET result == IF ops[o].stOk THEN "ok" ELSE "STORAGE_ERROR" IN
       /\ IF ops[o].stOk
          THEN /\ MemSet(ops[o].data)
               /\ FreeTimers # {}
               /\ startProactiveRefresh
               /\ lastRefreshTime' = now
          ELSE /\ MemSame
               /\ UNCHANGED <<timerVars, lastRefreshTime>>
       /\ isRefreshing' = FALSE
       /\ refreshPromise' = NULL
       /\ ops' = OpsAfterSettle(o, result, NULL)
       /\ req' = ReqAfterSettle(o, result)
    /\ UNCHANGED <<storage, interceptorsDisabled, app, now, ticks, issued, nativeStorage, pendingIO, retryStates,
                   apiClient, faultsLeft, cacheVars, expiryCall>>

\* clearTokens resumes (lines 138-154), then line 288 and the finally block
StoreOpClearCommit(o) ==
    /\ ops[o].pc = "clear_commit"
    /\ IF ops[o].stOk
       THEN /\ MemClear
            /\ StopProactiveRefresh
            /\ ResetCache
            /\ lastRefreshTime' = NULL
       ELSE /\ MemSame
            /\ UNCHANGED <<timerVars, cacheVars, lastRefreshTime>>
    /\ isRefreshing' = FALSE
    /\ refreshPromise' = NULL
    /\ ops' = OpsAfterSettle(o, ops[o].result, NULL)
    /\ req' = ReqAfterSettle(o, ops[o].result)
    /\ UNCHANGED <<storage, interceptorsDisabled, app, now, ticks, issued, nativeStorage, pendingIO, retryStates,
                   apiClient, faultsLeft, expiryCall>>

\* the promise returned to caller c has settled and c resumes
StoreResolve(c) ==
    /\ req[c].pc = "renew_wait"
    /\ req[c].res # "none"
    /\ req' = [req EXCEPT ![c] = Done(@, req[c].res)]
    /\ UNCHANGED <<memVars, storage, refreshPromise, ops, interceptorsDisabled, app,
                   budgetVars, faultsLeft>>

\* setTokens(tokens) of the store with the pair of a login: up to the await
StoreSetTokens ==
    /\ ~MicrotaskPending
    /\ app.pc = "idle"
    /\ issued < MaxTok
    /\ \E al \in AccessLifetimes, rl \in RefreshLifetimes, F \in FailChoices :
          /\ Fault(F)
          /\ storage' = StorageAfterSet(storage, Pair(issued + 1, al, rl), F)
          /\ app' = [app EXCEPT !.pc = "set_commit", !.data = Pair(issued + 1, al, rl),
                                !.stOk = (F = {})]
    /\ issued' = issued + 1
    /\ UNCHANGED <<memVars, refreshPromise, ops, req, interceptorsDisabled, now, ticks,
                   nativeStorage, pendingIO, retryStates, storeVars>>

\* lines 113-122: the four fields are set and the proactive refresh is
\* restarted; refreshPromise and the cache are left as they are
StoreSetCommit ==
    /\ app.pc = "set_commit"
    /\ IF app.stOk
       THEN /\ MemSet(app.data)
            /\ FreeTimers # {}
            /\ startProactiveRefresh
       ELSE /\ MemSame
            /\ UNCHANGED timerVars
    /\ app' = [app EXCEPT !.pc = "idle", !.data = NoPair, !.stOk = FALSE]
    /\ UNCHANGED <<storage, refreshPromise, ops, req, interceptorsDisabled, now, ticks,
                   issued, nativeStorage, pendingIO, retryStates, isRefreshing, apiClient,
                   lastRefreshTime, cacheVars, expiryCall, faultsLeft>>

\* clearTokens() of the store: up to the await
StoreClearTokens ==
    /\ ~MicrotaskPending
    /\ app.pc = "idle"
    /\ \E F \in FailChoices :
          /\ Fault(F)
          /\ storage' = StorageAfterRemove(storage, F)
          /\ app' = [app EXCEPT !.pc = "clear_commit", !.stOk = (F = {})]
    /\ UNCHANGED <<memVars, refreshPromise, ops, req, interceptorsDisabled, budgetVars>>

\* lines 138-154
StoreClearCommit ==
    /\ app.pc = "clear_commit"
    /\ IF app.stOk
       THEN /\ MemClear
            /\ StopProactiveRefresh
            /\ isRefreshing' = FALSE
            /\ refreshPromise' = NULL
            /\ ops' = GC(ops, NULL)
            /\ lastRefreshTime' = NULL
            /\ ResetCache
       ELSE /\ MemSame
            /\ UNCHANGED <<isRefreshing, refreshPromise, ops, timerVars, cacheVars,
                           lastRefreshTime>>
    /\ app' = [app EXCEPT !.pc = "idle", !.stOk = FALSE]
    /\ UNCHANGED <<storage, req, interceptorsDisabled, now, ticks, issued, nativeStorage, pendingIO, retryStates,
                   apiClient, faultsLeft, expiryCall>>

\* setApiClient(client)
setApiClient ==
    /\ ~MicrotaskPending
    /\ ~apiClient
    /\ apiClient' = TRUE
    /\ UNCHANGED <<memVars, storage, refreshPromise, ops, req, interceptorsDisabled, app,
                   now, ticks, issued, nativeStorage, pendingIO, retryStates, isRefreshing, faultsLeft,
                   lastRefreshTime, cacheVars, timerVars, expiryCall>>

InitStore ==
    /\ accessToken = NULL
    /\ refreshToken = NULL
    /\ accessTokenExpiresAt = NULL
    /\ refreshTokenExpiresAt = NULL
    /\ storage = EmptyStorage
    /\ refreshPromise = NULL
    /\ ops = [o \in OpIds |-> UnusedOp]
    /\ req = [r \in AllReqIds |-> IdleReq]
    /\ interceptorsDisabled = FALSE
    /\ app = IdleApp
    /\ now = T0
    /\ ticks = 0
    /\ issued = 0
    /\ faultsLeft = MaxFaults
    /\ nativeStorage = TRUE
    /\ pendingIO = {}
    /\ retryStates = EmptyLedger
    /\ isRefreshing = FALSE
    /\ apiClient = FALSE
    /\ lastRefreshTime = NULL
    /\ lastExpiryCheckTime = NULL
    /\ lastExpiryCheckResult = "null"
    /\ proactiveRefreshInterval = NULL
    /\ timers = {}
    /\ expiryCall = NoCall

NextStore ==
    \/ \E c \in ReqIds : StoreRefreshTokens(c)
    \/ \E c \in ReqIds : StoreResolve(c)
    \/ \E c \in ReqIds : AppReceive(c)
    \/ \E o \in OpIds : \E kind \in StoreResponses : StoreServerRespond(o, kind)
    \/ \E o \in OpIds : StoreOpReturn(o)
    \/ \E o \in OpIds : StoreOpSetCommit(o)
    \/ \E o \in OpIds : StoreOpClearCommit(o)
    \/ StoreSetTokens
    \/ StoreSetCommit
    \/ StoreClearTokens
    \/ StoreClearCommit
    \/ setApiClient

SpecStore == InitStore /\ [][NextStore]_vars

\* ---------------------------------------------------------------------------
\* The token store's expiry cache, proactive refresh interval and resetToken
\* ---------------------------------------------------------------------------

\* the application calls isAccessTokenExpiringSoon(minutesBeforeExpiry)
\* (lines 160-190); the call and its result are recorded in expiryCall
StoreIsExpiringSoon(minutesBeforeExpiry) ==
    /\ ~MicrotaskPending
    /\ expiryCall' = [minutes |-> minutesBeforeExpiry,
                      result |-> StoreExpiringSoon(minutesBeforeExpiry),
                      seq |-> 1 - expiryCall.seq]
    /\ CacheAfterCheck(minutesBeforeExpiry)
    /\ UNCHANGED <<memVars, storage, refreshPromise, ops, req, interceptorsDisabled, app,
                   now, ticks, issued, faultsLeft, nativeStorage, pendingIO, retryStates,
                   isRefreshing, apiClient, lastRefreshTime, timerVars>>

\* what the interval callback does (lines 226-240)
TickDecision ==
    IF isRefreshing \/ refreshPromise # NULL THEN "skip"
    ELSE IF StoreExpiringSoon(DEFAULT_THRESHOLD_MINUTES) = "true" THEN "refresh"
    ELSE "none"

\* the interval t ticks: the callback of lines 225-241 runs up to its await.
\* The Result of refreshTokens() is dropped, so nothing follows the await.
TimerTick(t) ==
    /\ t \in timers
    /\ now >= t.due
    /\ ~MicrotaskPending
    /\ timers' = (timers \ {t}) \cup {[t EXCEPT !.due = @ + PROACTIVE_PERIOD]}
    /\ CASE TickDecision = "skip" ->
              UNCHANGED <<cacheVars, ops, req, refreshPromise, isRefreshing>>
         [] TickDecision = "none" ->
              /\ CacheAfterCheck(DEFAULT_THRESHOLD_MINUTES)
              /\ UNCHANGED <<ops, req, refreshPromise, isRefreshing>>
         [] OTHER ->
              /\ CacheAfterCheck(DEFAULT_THRESHOLD_MINUTES)
              /\ FreeOps # {}
              /\ refreshPromise' = NewOp
              /\ IF StoreBranch = "start"
                 THEN /\ isRefreshing' = TRUE
                      /\ ops' = [ops EXCEPT ![NewOp] = [UnusedOp EXCEPT !.pc = "callback"]]
                      /\ req' = [req EXCEPT ![RefreshReq(NewOp)] =
                                    [IdleReq EXCEPT !.pc = "wire", !.url = REFRESH_URL,
                                                    !.xrt = refreshToken, !.sends = 1]]
                 ELSE /\ ops' = [ops EXCEPT ![NewOp] =
                                    [UnusedOp EXCEPT !.pc = "settled", !.result = StoreBranch]]
                      /\ UNCHANGED <<req, isRefreshing>>
    /\ UNCHANGED <<memVars, storage, interceptorsDisabled, app, now, ticks, issued,
                   faultsLeft, nativeStorage, pendingIO, retryStates, apiClient, lastRefreshTime,
                   proactiveRefreshInterval, expiryCall>>

\* resetToken (lines 346-365): memory only, storage is not touched
resetToken ==
    /\ ~MicrotaskPending
    /\ app.pc = "idle"
    /\ StopProactiveRefresh
    /\ MemClear
    /\ isRefreshing' = FALSE
    /\ refreshPromise' = NULL
    /\ ops' = GC(ops, NULL)
    /\ lastRefreshTime' = NULL
    /\ ResetCache
    /\ UNCHANGED <<storage, req, interceptorsDisabled, app, now, ticks, issued, faultsLeft,
                   nativeStorage, pendingIO, retryStates, apiClient, expiryCall>>

\* initializeTokens() of the store (lines 76-81): the four getItemAsync calls,
\* up to the await; a rejected read makes the call end with Err
initializeTokens ==
    /\ ~MicrotaskPending
    /\ app.pc = "idle"
    /\ \E F \in FailChoices :
          /\ Fault(F)
          /\ app' = [app EXCEPT !.pc = "store_init", !.data = storage, !.stOk = (F = {})]
    /\ UNCHANGED <<memVars, storage, refreshPromise, ops, req, interceptorsDisabled,
                   budgetVars>>

\* lines 83-89: the four fields are set from what was read; no timer is
\* started and the cache is left as it is
StoreInitLoad ==
    /\ app.pc = "store_init"
    /\ IF app.stOk THEN MemSet(app.data) ELSE MemSame
    /\ app' = [app EXCEPT !.pc = "idle", !.data = NoPair, !.stOk = FALSE]
    /\ UNCHANGED <<storage, refreshPromise, ops, req, interceptorsDisabled, budgetVars,
                   faultsLeft>>

\* steps of the clock: just inside the cache's time to live, and past the
\* refresh threshold of a fresh pair
ClockSteps == {CACHE_TTL - 1, TickMs}

StoreTick(d) ==
    /\ ~MicrotaskPending
    /\ ticks < MaxTicks
    /\ now' = now + d
    /\ ticks' = ticks + 1
    /\ UNCHANGED <<memVars, storage, refreshPromise, ops, req, interceptorsDisabled, app,
                   issued, faultsLeft, nativeStorage, pendingIO, retryStates, storeVars>>

\* the store driven by the application and its interval alone: no caller
\* awaits refreshTokens()
NextStoreT ==
    \/ \E o \in OpIds : \E kind \in StoreResponses : StoreServerRespond(o, kind)
    \/ \E o \in OpIds : StoreOpReturn(o)
    \/ \E o \in OpIds : StoreOpSetCommit(o)
    \/ \E o \in OpIds : StoreOpClearCommit(o)
    \/ StoreSetTokens
    \/ StoreSetCommit
    \/ StoreClearTokens
    \/ StoreClearCommit
    \/ setApiClient
    \/ StoreIsExpiringSoon(DEFAULT_THRESHOLD_MINUTES)
    \/ \E t \in timers : TimerTick(t)
    \/ resetToken
    \/ \E d \in ClockSteps : StoreTick(d)

SpecStoreT == InitStore /\ [][NextStoreT]_vars

\* the store as the application drives it across a restart, no client being
\* registered: login, logout, reset of the memory, and load from persistence
NextStoreInit ==
    \/ StoreSetTokens
    \/ StoreSetCommit
    \/ StoreClearTokens
    \/ StoreClearCommit
    \/ resetToken
    \/ initializeTokens
    \/ StoreInitLoad
    \/ \E t \in timers : TimerTick(t)
    \/ \E d \in ClockSteps : StoreTick(d)

SpecStoreInit == InitStore /\ [][NextStoreInit]_vars

-----------------------------------------------------------------------------
(* The cookie-based client (axiosClient/httpOnly/axiosClient.ts): the access *)
(* token is held by TokenStorage, the refresh credential is an httpOnly      *)
(* cookie, and reissueToken() is the renewal call.  accessToken and          *)
(* accessTokenExpiresAt stand for the token of TokenStorage and its exp      *)
(* claim, isRefreshing for the private field of line 25.                     *)

\* isTokenExpired(token) as called at line 57: the exp claim has passed
isTokenExpired(expiresAt) == now >= expiresAt

InitCookie ==
    /\ accessToken = 1
    /\ refreshToken = NULL
    /\ accessTokenExpiresAt = T0 + TickMs
    /\ refreshTokenExpiresAt = NULL
    /\ storage = EmptyStorage
    /\ refreshPromise = NULL
    /\ ops = [o \in OpIds |-> UnusedOp]
    /\ req = [r \in AllReqIds |-> IdleReq]
    /\ interceptorsDisabled = FALSE
    /\ app = IdleApp
    /\ now = T0
    /\ ticks = 0
    /\ issued = 1
    /\ faultsLeft = 0
    /\ nativeStorage = FALSE
    /\ pendingIO = {}
    /\ retryStates = EmptyLedger
    /\ isRefreshing = FALSE
    /\ apiClient = FALSE
    /\ lastRefreshTime = NULL
    /\ lastExpiryCheckTime = NULL
    /\ lastExpiryCheckResult = "null"
    /\ proactiveRefreshInterval = NULL
    /\ timers = {}
    /\ expiryCall = NoCall

\* request interceptor (lines 52-79) up to its await, or to its end when no
\* renewal is started
CookieReqInterceptor(r) ==
    /\ req[r].pc = "interceptor"
    /\ IF accessToken # NULL /\ isTokenExpired(accessTokenExpiresAt) /\ ~isRefreshing
       THEN /\ isRefreshing' = TRUE
            /\ req' = [req EXCEPT ![r].pc = "reissue_pre", ![r].renews = @ + 1]
       ELSE /\ req' = [req EXCEPT ![r].pc = "wire", ![r].hdr = accessToken,
                                  ![r].sends = @ + 1]
            /\ UNCHANGED isRefreshing
    /\ UNCHANGED <<memVars, storage, refreshPromise, ops, interceptorsDisabled, app, now,
                   ticks, issued, faultsLeft, nativeStorage, pendingIO, apiClient, retryStates,
                   lastRefreshTime, cacheVars, timerVars, expiryCall>>

\* reissueToken() settles for request r.  Lines 60-71: the request interceptor
\* stores the new token, or keeps the old one, clears isRefreshing and sends.
\* Lines 103-113: the 401 handler stores the new token and passes the request
\* to the client again, or calls handleUnauthorized and rejects
ReissueRespond(r, kind) ==
    /\ req[r].pc \in {"reissue_pre", "reissue_401"}
    /\ ~MicrotaskPending
    /\ kind = "200" => issued < MaxTok
    /\ IF kind = "200"
       THEN /\ accessToken' = issued + 1
            /\ accessTokenExpiresAt' = now + TickMs
            /\ issued' = issued + 1
       ELSE UNCHANGED <<accessToken, accessTokenExpiresAt, issued>>
    /\ IF req[r].pc = "reissue_pre"
       THEN /\ isRefreshing' = FALSE
            /\ req' = [req EXCEPT ![r].pc = "wire", ![r].hdr = accessToken',
                                  ![r].sends = @ + 1]
       ELSE /\ UNCHANGED isRefreshing
            /\ req' = [req EXCEPT ![r] =
                         IF kind = "200"
                         THEN [@ EXCEPT !.pc = "interceptor", !.hdr = accessToken',
                                        !.resends = @ + 1]
                         ELSE Done([@ EXCEPT !.cb = @ + 1], "unauth")]
    /\ UNCHANGED <<refreshToken, refreshTokenExpiresAt, storage, refreshPromise, ops,
                   interceptorsDisabled, app, now, ticks, faultsLeft, nativeStorage, pendingIO,
                   apiClient, retryStates, lastRefreshTime, cacheVars, timerVars,
                   expiryCall>>

\* the server answers request r (lines 88-127): a first 401 marks the request
\* and calls reissueToken(), isRefreshing being neither read nor written
CookieServerRespond(r, kind) ==
    /\ req[r].pc = "wire"
    /\ ~MicrotaskPending
    /\ req' = [req EXCEPT ![r] =
                 IF kind = "200" THEN Done(@, "ok")
                 ELSE IF ~@.retry
                      THEN [@ EXCEPT !.retry = TRUE, !.pc = "reissue_401",
                                     !.renews = @ + 1]
                      ELSE Done(@, "error")]
    /\ UNCHANGED <<memVars, storage, refreshPromise, ops, interceptorsDisabled, app,
                   budgetVars, faultsLeft>>

NextCookie ==
    \/ \E S \in SUBSET ReqIds : \E url \in [S -> AppUrls] : AppRequest(S, url)
    \/ \E r \in ReqIds : CookieReqInterceptor(r)
    \/ \E r \in ReqIds : \E kind \in {"200", "400"} : ReissueRespond(r, kind)
    \/ \E r \in ReqIds : \E kind \in {"200", "401"} : CookieServerRespond(r, kind)
    \/ \E r \in ReqIds : AppReceive(r)
    \/ Tick

SpecCookie == InitCookie /\ [][NextCookie]_vars

-----------------------------------------------------------------------------
(* setTokens and clearTokens of TokenManager over a storage whose per-key    *)
(* operations complete one by one, in any order (tokenManager.ts 57-88,      *)
(* reactNativeStorage.ts 17-39).  pendingIO holds the calls that await their *)
(* Promise.all: kind, the tokens of setTokens, and the keys whose operation  *)
(* has not completed yet.                                                    *)

\* a call whose four operations are over resumes before anything else runs
IOSettling == \E c \in pendingIO : c.left = {}

\* setTokens(tokens), lines 58-65: the four setItem calls are issued
IssueSetTokens ==
    /\ ~IOSettling
    /\ issued < MaxTok
    /\ \A c \in pendingIO : c.kind # "set"
    /\ \E al \in AccessLifetimes, rl \in RefreshLifetimes :
          pendingIO' = pendingIO \cup {[kind |-> "set", tokens |-> Pair(issued + 1, al, rl),
                                      left |-> STORAGE_KEYS]}
    /\ issued' = issued + 1
    /\ UNCHANGED <<memVars, storage, refreshPromise, ops, req, interceptorsDisabled, app,
                   now, ticks, faultsLeft, nativeStorage, storeVars, retryStates>>

\* clearTokens(), lines 75-80: the four removeItem calls are issued
IssueClearTokens ==
    /\ ~IOSettling
    /\ \A c \in pendingIO : c.kind # "clear"
    /\ pendingIO' = pendingIO \cup {[kind |-> "clear", tokens |-> NoPair, left |-> STORAGE_KEYS]}
    /\ UNCHANGED <<memVars, storage, refreshPromise, ops, req, interceptorsDisabled, app,
                   now, ticks, issued, faultsLeft, nativeStorage, storeVars, retryStates>>

\* the storage completes the operation of call c on key k
\* (reactNativeStorage.ts 17-23, 33-39)
StorageComplete(c, k) ==
    /\ ~IOSettling
    /\ c \in pendingIO /\ k \in c.left
    /\ storage' = [storage EXCEPT ![k] = IF c.kind = "set" THEN c.tokens[k] ELSE NULL]
    /\ pendingIO' = (pendingIO \ {c}) \cup {[c EXCEPT !.left = @ \ {k}]}
    /\ UNCHANGED <<memVars, refreshPromise, ops, req, interceptorsDisabled, app,
                   now, ticks, issued, faultsLeft, nativeStorage, storeVars, retryStates>>

\* Promise.all of call c has resolved: lines 67-70 assign the four fields,
\* lines 82-86 clear them and the in-flight reference
SettleCall(c) ==
    /\ c \in pendingIO /\ c.left = {}
    /\ IF c.kind = "set"
       THEN MemSet(c.tokens) /\ UNCHANGED refreshPromise
       ELSE MemClear /\ refreshPromise' = NULL
    /\ pendingIO' = pendingIO \ {c}
    /\ UNCHANGED <<storage, ops, req, interceptorsDisabled, app,
                   now, ticks, issued, faultsLeft, nativeStorage, storeVars, retryStates>>

NextOverlap ==
    \/ IssueSetTokens
    \/ IssueClearTokens
    \/ \E c \in pendingIO : \E k \in STORAGE_KEYS : StorageComplete(c, k)
    \/ \E c \in pendingIO : SettleCall(c)

SpecOverlap == Init /\ [][NextOverlap]_vars

----------------------------------------------------------------------------
(* Properties of the token store *)

\* C5 (SpecStore): a refreshTokens call that fails at once with NOT_FOUND or
\* REFRESH_FAILED leaves nothing behind: refreshPromise holds no settled
\* promise, and a call made when a refresh token and the API client are
\* present does not get one of these two failures at once (it joins a pending
\* renewal or starts the renewal request).
C5_FailedCallLeavesNothing ==
    /\ [](refreshPromise # NULL => ops[refreshPromise].pc # "settled")
    /\ [][\A c \in ReqIds :
             (/\ req[c].pc = "idle"
              /\ req'[c].pc = "renew_wait"
              /\ refreshToken # NULL
              /\ apiClient)
             => req'[c].res = "none"]_vars

----------------------------------------------------------------------------
(* Part C, the simplified client: SimpleApiClient over TokenManager         *)
(* (simpleApiClient.ts), storage that completes within the microtask queue  *)

\* line 43: the paths the request interceptor leaves alone
SimplePublicEndpoints ==
    {<<"api", "auth", "signup">>, <<"api", "auth", "login">>, <<"api", "auth", "refresh">>}

isPublicEndpoint(url) == \E endpoint \in SimplePublicEndpoints : UrlIncludes(url, endpoint)

\* lines 59-66: the header is set if there is a token, and config is returned
\* in either case
SimpleAttach(rec) ==
    [rec EXCEPT !.hdr = IF accessToken # NULL THEN accessToken ELSE @,
                !.pc = "wire", !.sends = Cap(@), !.awaited = NULL, !.res = "none"]

\* refreshTokensWithCallback with SimpleApiClient.refreshToken as the callback
\* (lines 87-93): X-Refresh-Token is given the access token
SimpleReqAfterRenew(r, rec, waitPc) ==
    IF RenewBranch = "start"
    THEN [ReqAfterRenew(r, rec, waitPc) EXCEPT ![RefreshReq(NewOp)].xrt = accessToken]
    ELSE ReqAfterRenew(r, rec, waitPc)

\* request interceptor, lines 41-67, up to its first await (or to its end)
SimpleRequest(r) ==
    /\ req[r].pc = "interceptor"
    /\ IF isPublicEndpoint(req[r].url)
       THEN /\ req' = [req EXCEPT ![r] = [@ EXCEPT !.pc = "wire", !.sends = Cap(@)]]
            /\ UNCHANGED <<refreshPromise, ops>>
       ELSE IF isAccessTokenExpiringSoon
       THEN /\ CanRenew
            /\ req' = SimpleReqAfterRenew(r, req[r], "presend_wait")
            /\ ops' = OpsAfterRenew
            /\ refreshPromise' = PromiseAfterRenew
       ELSE /\ req' = [req EXCEPT ![r] = SimpleAttach(req[r])]
            /\ UNCHANGED <<refreshPromise, ops>>
    /\ UNCHANGED <<memVars, storage, interceptorsDisabled, app, budgetVars, faultsLeft>>

\* lines 50-63: the awaited renewal has settled
SimplePresendResume(r) ==
    /\ req[r].pc = "presend_wait"
    /\ req[r].res # "none"
    /\ req' = [req EXCEPT ![r] = IF req[r].res # "ok"
                                 THEN Done(req[r], "refresh_failed")
                                 ELSE SimpleAttach(req[r])]
    /\ UNCHANGED <<memVars, storage, refreshPromise, ops, interceptorsDisabled, app,
                   budgetVars, faultsLeft>>

\* the server answers request r; response interceptor, lines 72-84, up to the
\* await of clearTokens (or to its end)
SimpleRespond(r, kind) ==
    /\ req[r].pc = "wire"
    /\ ~MicrotaskPending
    /\ kind \in ResponsesOf(r)
    /\ CASE kind = "401" ->
              /\ \E F \in FailChoices :
                    /\ Fault(F)
                    /\ storage' = StorageAfterRemove(storage, F)
                    /\ req' = [req EXCEPT ![r] =
                                 [@ EXCEPT !.pc = "hu_commit", !.out = "http_401",
                                           !.hu = IF F = {} THEN "ok" ELSE "failed"]]
              /\ issued' = issued
         [] kind = "200" /\ IsRefreshId(r) ->
              /\ issued < MaxTok
              /\ \E al \in AccessLifetimes, rl \in RefreshLifetimes :
                    req' = [req EXCEPT ![r] =
                              Done([req[r] EXCEPT !.data = Pair(issued + 1, al, rl)], "200")]
              /\ issued' = issued + 1
              /\ UNCHANGED <<storage, faultsLeft>>
         [] OTHER ->
              /\ req' = [req EXCEPT ![r] = Done(req[r], kind)]
              /\ UNCHANGED <<storage, issued, faultsLeft>>
    /\ UNCHANGED <<memVars, refreshPromise, ops, interceptorsDisabled, app, now, ticks,
                   nativeStorage, pendingIO, retryStates, storeVars>>

\* lines 76-82: clearTokens resumes, the error is shown and the request rejected
SimpleClearResume(r) ==
    /\ req[r].pc = "hu_commit"
    /\ ClearCommit(req[r].hu = "ok", refreshPromise)
    /\ req' = [req EXCEPT ![r] = Done(req[r], req[r].out)]
    /\ UNCHANGED <<storage, interceptorsDisabled, app, budgetVars, faultsLeft>>

NextSimple ==
    \/ \E S \in SUBSET ReqIds : \E url \in [S -> AppUrls] : AppRequest(S, url)
    \/ \E r \in AllReqIds : SimpleRequest(r)
    \/ \E r \in AllReqIds : SimplePresendResume(r)
    \/ \E r \in AllReqIds : \E kind \in ResponsesOf(r) : SimpleRespond(r, kind)
    \/ \E r \in AllReqIds : SimpleClearResume(r)
    \/ \E r \in ReqIds : AppReceive(r)
    \/ \E o \in OpIds : OpCallbackReturn(o)
    \/ \E o \in OpIds : OpSetCommit(o)
    \/ \E o \in OpIds : OpClearCommit(o)
    \/ TokenCalls
    \/ Tick

SpecSimple == Init /\ [][NextSimple]_vars

----------------------------------------------------------------------------
(* Properties of the credential a sent request carries *)

\* ApiClient (Spec): a request on the wire carries an Authorization header,
\* and the header of a request put on the wire is the access token held at
\* that step, which is not null
ApiClientAttachesCredential ==
    /\ [](\A r \in AllReqIds : req[r].pc = "wire" => req[r].hdr # NULL)
    /\ [][\A r \in AllReqIds :
             (req[r].pc # "wire" /\ req'[r].pc = "wire")
             => (accessToken # NULL /\ req'[r].hdr = accessToken)]_vars

\* C18 (SpecSimple): a request to a path that requires authentication is on
\* the wire only with an Authorization header; without an access token it is
\* rejected and not sent.
C18_SentWithCredential ==
    \A r \in ReqIds : req[r].pc = "wire" => req[r].hdr # NULL

----------------------------------------------------------------------------
(* Part A, start-up: TokenManager.initialize (tokenManager.ts 31-55) called *)
(* by ApiClient.initialize (apiClient.ts 58-65) on what an earlier session  *)
(* left in storage                                                          *)

Stored(pair) == StorageAfterSet(EmptyStorage, pair, {})

\* a pair issued 20 minutes before the start: its refresh token has expired
ExpiredPair == PairAt(1, T0 - 20 * Minute, 15 * Minute, 10 * Minute)

PersistedStates ==
    {EmptyStorage, Stored(LoginPair), Stored(ExpiredPair),
     [Stored(LoginPair) EXCEPT !["refreshTokenExpiresAt"] = BAD_DATE],
     [Stored(LoginPair) EXCEPT !["refreshTokenExpiresAt"] = NULL],
     [Stored(LoginPair) EXCEPT !["accessTokenExpiresAt"] = BAD_DATE]}

\* variant: the loaded refresh token is not checked
RefreshTokenExpiredNoCheck(st) == FALSE

\* lines 46-47: hadRefreshToken && !this.isRefreshTokenValid(), on the loaded fields
RefreshTokenExpired(st) ==
    st["refreshToken"] # NULL /\ ~RefreshValidAt(st["refreshTokenExpiresAt"], now)

\* initialize(): the four getItem calls, up to the await of line 33
AppInitialize ==
    /\ ~MicrotaskPending
    /\ app.pc = "idle"
    /\ app.ret = "none"
    /\ \E F \in FailChoices :
          /\ Fault(F)
          /\ app' = [app EXCEPT !.pc = "init_load", !.stOk = (F = {})]
    /\ UNCHANGED <<memVars, storage, refreshPromise, ops, req, interceptorsDisabled,
                   budgetVars>>

\* lines 40-53: the reads are over.  A rejected read ends the call with Err;
\* otherwise the fields are assigned and, the refresh token being expired,
\* clearTokens is called
InitLoad ==
    /\ app.pc = "init_load"
    /\ IF ~app.stOk
       THEN /\ app' = [app EXCEPT !.pc = "idle", !.stOk = FALSE, !.ret = "error"]
            /\ UNCHANGED <<memVars, storage, faultsLeft>>
       ELSE /\ MemSet(storage)
            /\ IF RefreshTokenExpired(storage)
               THEN \E F \in FailChoices :
                       /\ Fault(F)
                       /\ storage' = StorageAfterRemove(storage, F)
                       /\ app' = [app EXCEPT !.pc = "init_clear", !.stOk = (F = {})]
               ELSE /\ app' = [app EXCEPT !.pc = "idle", !.stOk = FALSE, !.ret = "valid"]
                    /\ UNCHANGED <<storage, faultsLeft>>
    /\ UNCHANGED <<refreshPromise, ops, req, interceptorsDisabled, budgetVars>>

\* clearTokens resumes and initialize returns { refreshTokenExpired: true }
\* (tokenManager.ts 82-86, 53); ApiClient.initialize calls handleUnauthorized
\* (apiClient.ts 62-64, 84-89), which runs up to its await of clearTokens
InitClearCommit ==
    /\ app.pc = "init_clear"
    /\ ClearCommit(app.stOk, refreshPromise)
    /\ \E F \in HUChoices :
          /\ Fault(F)
          /\ storage' = StorageAfterHU(F)
          /\ app' = [app EXCEPT !.pc = IF interceptorsDisabled THEN "idle" ELSE "init_hu",
                                !.stOk = (F = {}), !.ret = "expired"]
    /\ UNCHANGED <<req, interceptorsDisabled, budgetVars>>

\* apiClient.ts 89-92: clearTokens resumes, then the unauthorized callback
InitHUCommit ==
    /\ app.pc = "init_hu"
    /\ ClearCommit(app.stOk, refreshPromise)
    /\ app' = [app EXCEPT !.pc = "idle", !.stOk = FALSE, !.cb = Cap(@)]
    /\ UNCHANGED <<storage, req, interceptorsDisabled, budgetVars, faultsLeft>>

InitStartup ==
    /\ accessToken = NULL
    /\ refreshToken = NULL
    /\ accessTokenExpiresAt = NULL
    /\ refreshTokenExpiresAt = NULL
    /\ storage \in PersistedStates
    /\ refreshPromise = NULL
    /\ ops = [o \in OpIds |-> UnusedOp]
    /\ req = [r \in AllReqIds |-> IdleReq]
    /\ interceptorsDisabled = FALSE
    /\ app = IdleApp
    /\ now = T0
    /\ ticks = 0
    /\ issued = 1
    /\ faultsLeft = MaxFaults
    /\ nativeStorage \in BOOLEAN
    /\ pendingIO = {}
    /\ retryStates = EmptyLedger
    /\ isRefreshing = FALSE
    /\ apiClient = FALSE
    /\ lastRefreshTime = NULL
    /\ lastExpiryCheckTime = NULL
    /\ lastExpiryCheckResult = "null"
    /\ proactiveRefreshInterval = NULL
    /\ timers = {}
    /\ expiryCall = NoCall

\* TokenManager.isAccessTokenExpiringSoon(minutesBeforeExpiry), called by the
\* application; the call and its result are recorded in expiryCall
TMIsExpiringSoon(minutesBeforeExpiry) ==
    /\ ~MicrotaskPending
    /\ expiryCall' = [minutes |-> minutesBeforeExpiry,
                      result |-> Bool(ExpiringSoonAt(accessTokenExpiresAt,
                                                     minutesBeforeExpiry, now)),
                      seq |-> 1 - expiryCall.seq]
    /\ UNCHANGED <<memVars, storage, refreshPromise, ops, req, interceptorsDisabled, app,
                   now, ticks, issued, faultsLeft, nativeStorage, pendingIO, retryStates,
                   isRefreshing, apiClient, lastRefreshTime, cacheVars, timerVars>>

NextStartup ==
    \/ \E m \in Thresholds : TMIsExpiringSoon(m)
    \/ AppInitialize
    \/ InitLoad
    \/ InitClearCommit
    \/ InitHUCommit
    \/ TokenCalls
    \/ Tick
    \/ \E d \in BOOLEAN : setInterceptorsDisabled(d)

SpecStartup == InitStartup /\ [][NextStartup]_vars

\* the client of a logged-in user while the credential pair is fresh: two
\* requests, the first of which the server may answer with 5xx, renewals after
\* a 401, the token calls and the start-up of the application
NextLedger ==
    \/ \E S \in SUBSET {1, 2} : \E url \in [S -> AppUrls] : AppRequest(S, url)
    \/ \E r \in AllReqIds : ReqInterceptor(r)
    \/ \E r \in AllReqIds : HUCommit(r)
    \/ \E r \in AllReqIds : \E kind \in ResponsesOf(r) : ServerRespond(r, kind)
    \/ \E r \in AllReqIds : RespResume(r)
    \/ \E r \in ReqIds : AppReceive(r)
    \/ \E o \in OpIds : OpCallbackReturn(o)
    \/ \E o \in OpIds : OpSetCommit(o)
    \/ \E o \in OpIds : OpClearCommit(o)
    \/ ServerFail5xx(1)
    \/ RetryResume(1)
    \/ TokenCalls
    \/ AppInitialize
    \/ InitLoad

SpecLedger == InitW /\ [][NextLedger]_vars

\* the client of a user who sends one request at a time, each after the one
\* before has ended and only while logged in
NextOne ==
    \/ \E url \in [{1} -> AppUrls] :
          /\ \A q \in AllReqIds : req[q] = IdleReq
          /\ accessToken # NULL
          /\ AppRequest({1}, url)
    \/ \E r \in AllReqIds : ReqInterceptor(r)
    \/ \E r \in AllReqIds : HUCommit(r)
    \/ \E r \in AllReqIds : \E kind \in ResponsesOf(r) : ServerRespond(r, kind)
    \/ \E r \in AllReqIds : RespResume(r)
    \/ \E r \in ReqIds : AppReceive(r)
    \/ \E o \in OpIds : OpCallbackReturn(o)
    \/ \E o \in OpIds : OpSetCommit(o)
    \/ \E o \in OpIds : OpClearCommit(o)
    \/ Tick

SpecOne == InitW /\ [][NextOne]_vars

----------------------------------------------------------------------------
(* Properties of initialize *)

\* the refresh token in storage has a well-formed expiry that has passed
RefreshExpiryInPast ==
    /\ storage["refreshToken"] # NULL
    /\ storage["refreshTokenExpiresAt"] \notin {NULL, BAD_DATE}
    /\ now >= storage["refreshTokenExpiresAt"]

\* this step is the one initialize returns with after its clearTokens
InitializeReturnsAfterClear == app.pc = "init_clear" /\ app'.pc # "init_clear"

----------------------------------------------------------------------------
(* Properties of setTokens and clearTokens as mutations of the four fields *)

MemFields ==
    [accessToken |-> accessToken, refreshToken |-> refreshToken,
     accessTokenExpiresAt |-> accessTokenExpiresAt,
     refreshTokenExpiresAt |-> refreshTokenExpiresAt]

AllOrNone(f) == (\A k \in STORAGE_KEYS : f[k] # NULL) \/ (\A k \in STORAGE_KEYS : f[k] = NULL)

\* this step completes a setTokens / clearTokens call of the application, or
\* the one made by renewal operation o
AppMutationEnds == app.pc \in {"set_commit", "clear_commit"} /\ app'.pc = "idle"
OpMutationEnds(o) == ops[o].pc \in {"set_commit", "clear_commit"} /\ ops'[o].pc # ops[o].pc

\* C22 (SpecTM): when a setTokens or clearTokens call ends with success, the
\* four fields are all present or all absent in memory, and all present or
\* all absent in storage.
C22_AllOrNoneAfterSuccess ==
    [][/\ (AppMutationEnds /\ app.stOk) => (AllOrNone(MemFields)' /\ AllOrNone(storage'))
       /\ \A o \in OpIds :
             (OpMutationEnds(o) /\ ops[o].stOk)
                => (AllOrNone(MemFields)' /\ AllOrNone(storage'))]_vars

\* C23 (SpecTM): when a setTokens or clearTokens call of the application ends
\* with a failure of storage, the memory is what it was before the call and
\* holds what storage holds.
C23_FailureLeavesNoDivergence ==
    [][(AppMutationEnds /\ ~app.stOk)
          => (UNCHANGED memVars /\ MemFields' = storage')]_vars

\* this step calls clearTokens (from the application, or from handleUnauthorized
\* right after the clearTokens of initialize), resp. lets a call of it resume
ClearCalled ==
    /\ app'.pc \in {"clear_commit", "init_hu"}
    /\ app.pc # app'.pc
ClearEnds ==
    /\ app.pc \in {"clear_commit", "init_clear", "init_hu"}
    /\ app.pc # app'.pc

\* C24 (SpecStartup): a clearTokens call whose removals resolve leaves the
\* four fields absent in memory and in storage, and a clearTokens call made
\* in that state leaves them absent again and succeeds unless a storage
\* operation rejects.
C24_ClearIdempotent ==
    [][/\ (ClearEnds /\ app.stOk) => (MemAbsent' /\ storage' = EmptyStorage)
       /\ (ClearCalled /\ MemAbsent' /\ storage = EmptyStorage)
             => /\ storage' = EmptyStorage
                /\ faultsLeft' = faultsLeft => app'.stOk]_vars

\* handleUnauthorized's clearTokens, called right after the clearTokens of
\* initialize succeeded, has found nothing to remove and succeeds
C24_Witness ==
    /\ app.pc = "init_hu"
    /\ app.stOk
    /\ MemAbsent
    /\ storage = EmptyStorage
    /\ faultsLeft = MaxFaults

\* ---- C25: TokenManager.isAccessTokenExpiringSoon(threshold) returns true exactly
\* when accessTokenExpiresAt is present and well formed and the present is at or
\* after accessTokenExpiresAt minus the threshold in minutes; it returns false
\* when the timestamp is missing or malformed.
AccessExpiryWellFormed == accessTokenExpiresAt # NULL /\ accessTokenExpiresAt # BAD_DATE

TimerStopped == timers = {} /\ proactiveRefreshInterval = NULL

C26_OneTimer ==
    /\ Cardinality(timers) <= 1
    /\ \A t \in timers : t.id = proactiveRefreshInterval
    /\ (proactiveRefreshInterval # NULL) => timers # {}

C26_StoppedAfterClear ==
    [][/\ (app.pc = "clear_commit" /\ app.stOk /\ app'.pc = "idle") => TimerStopped'
       /\ (\A o \in OpIds :
             (ops[o].pc = "clear_commit" /\ ops[o].stOk /\ ops'[o].pc # "clear_commit")
                => TimerStopped')
       /\ (app.pc = "idle" /\ app'.pc = "idle" /\ accessToken # NULL
             /\ accessToken' = NULL) => TimerStopped']_vars

C26_SingleTimer == []C26_OneTimer /\ C26_StoppedAfterClear

\* a second successful setTokens has replaced a running interval by another
C26_Witness ==
    /\ proactiveRefreshInterval = 2
    /\ timers = {[id |-> 2, due |-> now + PROACTIVE_PERIOD]}
    /\ accessToken = 2

\* ---- C27: on each tick of the proactive interval, no renewal is started while
\* one is in flight; otherwise a renewal is started exactly when the access
\* credential is expiring soon (the present is at or after its expiry minus the
\* default threshold); the tick raises no error whatever the renewal does.
TickStep ==
    /\ timers' # timers
    /\ proactiveRefreshInterval' = proactiveRefreshInterval

RenewalInFlight == \E o \in OpIds : ops[o].pc \in {"callback", "set_commit", "clear_commit"}

RenewalCalled == \E o \in OpIds : ops[o].pc = "unused" /\ ops'[o].pc # "unused"

AccessExpiringSoon ==
    /\ accessTokenExpiresAt # NULL
    /\ accessTokenExpiresAt # BAD_DATE
    /\ now >= accessTokenExpiresAt - DEFAULT_THRESHOLD_MINUTES * Minute

C27_TickRenewsWhenExpiring ==
    [][TickStep =>
         IF RenewalInFlight THEN ~RenewalCalled
         ELSE RenewalCalled <=> AccessExpiringSoon]_vars

\* ---- C30: a call of the store's isAccessTokenExpiringSoon made less than one
\* second after a computation returns the cached result and leaves the cache
\* as it is; setTokens and the setTokens of a completed renewal leave
\* lastExpiryCheckTime and lastExpiryCheckResult as they are; a successful
\* clearTokens (the application's, or the one a failed renewal makes) and
\* resetToken set both to null.
CachedWithinTtl ==
    /\ lastExpiryCheckTime # NULL
    /\ lastExpiryCheckResult # "null"
    /\ now - lastExpiryCheckTime < CACHE_TTL

CacheEmpty == lastExpiryCheckTime = NULL /\ lastExpiryCheckResult = "null"

CallWithinTtlAnswersFromCache ==
    (expiryCall' # expiryCall /\ CachedWithinTtl)
        => (expiryCall'.result = lastExpiryCheckResult /\ UNCHANGED cacheVars)

\* the statement as the specification words it: only the time to live
\* invalidates the cache, no operation resets it
C30_Original ==
    [][/\ CallWithinTtlAnswersFromCache
       /\ (lastExpiryCheckTime # NULL) => (lastExpiryCheckTime' # NULL)
       /\ (lastExpiryCheckResult # "null") => (lastExpiryCheckResult' # "null")]_vars

C30_CacheResetOnlyByClear ==
    [][/\ CallWithinTtlAnswersFromCache
       /\ (app.pc = "set_commit" /\ app'.pc = "idle") => UNCHANGED cacheVars
       /\ (\A o \in OpIds :
             (ops[o].pc = "set_commit" /\ ops'[o].pc # "set_commit")
                => UNCHANGED cacheVars)
       /\ (app.pc = "clear_commit" /\ app.stOk /\ app'.pc = "idle") => CacheEmpty'
       /\ (\A o \in OpIds :
             (ops[o].pc = "clear_commit" /\ ops[o].stOk /\ ops'[o].pc # "clear_commit")
                => CacheEmpty')
       /\ (app.pc = "idle" /\ app'.pc = "idle" /\ accessToken # NULL
             /\ accessToken' = NULL) => CacheEmpty']_vars

\* a call answered true from the cache although a computation would have
\* answered false: setTokens has replaced the pair since the cached check
C30_Witness ==
    /\ expiryCall.result = "true"
    /\ expiryCall.minutes = DEFAULT_THRESHOLD_MINUTES
    /\ CachedWithinTtl
    /\ lastExpiryCheckResult = "true"
    /\ accessTokenExpiresAt # NULL
    /\ now < accessTokenExpiresAt - DEFAULT_THRESHOLD_MINUTES * Minute

\* ---- C29: a renewal is attempted only while the refresh credential has not
\* expired: when refreshTokenExpiresAt is missing or the present is at or after
\* it, the renewal callback is not invoked.
RefreshNotExpired ==
    /\ refreshTokenExpiresAt # NULL
    /\ refreshTokenExpiresAt # BAD_DATE
    /\ now < refreshTokenExpiresAt

C29_NoRenewalAfterRefreshExpiry ==
    [][\A o \in OpIds :
          (ops[o].pc # "callback" /\ ops'[o].pc = "callback") => RefreshNotExpired]_vars

\* ---- C28: retryRequest, called for a 5xx answer, returns false and deletes
\* the ledger entry of the key when the attempt count it reads has reached
\* maxAttempts; otherwise it waits for the backoff delay, then adds exactly one
\* to the attempt count of the state it read, stores that state under the key
\* and returns true, so that the request is sent again.
Answered5xx(r) ==
    /\ req[r].pc = "wire"
    /\ \/ req'[r].pc = "retry_wait"
       \/ req'[r].pc = "done" /\ req'[r].out = "503"

C28_RetryRequest ==
    [][\A r \in ReqIds :
          /\ Answered5xx(r) =>
                IF LedgerAttempt(r) >= retryAttempts
                THEN /\ req'[r].pc = "done"
                     /\ retryStates'.map[req[r].url] = NULL
                ELSE /\ req'[r].pc = "retry_wait"
                     /\ req'[r].rs # NULL
                     /\ retryStates'.objs[req'[r].rs] = LedgerAttempt(r)
                     /\ retryStates'.map = retryStates.map
          /\ (req[r].pc = "retry_wait" /\ req'[r].pc # "retry_wait") =>
                /\ retryStates'.map[req[r].url] = req[r].rs
                /\ retryStates'.objs[req[r].rs] = retryStates.objs[req[r].rs] + 1
                /\ req'[r].pc = "interceptor"]_vars

\* a request was answered 5xx with the entry at maxAttempts: it has ended
\* with the error and the entry is gone
C28_Witness ==
    \E r \in ReqIds :
        /\ req[r].pc = "done"
        /\ req[r].out = "503"
        /\ req[r].fails = retryAttempts + 1
        /\ \A k \in RetryKeys : retryStates.map[k] = NULL

\* ---- C31: the retry ledger and the credential state are independent: only
\* retryRequest changes the ledger (setTokens, clearTokens, initialize and the
\* renewal leave it as it is), and retryRequest leaves the four credential
\* fields and the reference to the renewal in flight as they are.
RetryRequestStep ==
    \E r \in ReqIds :
        \/ Answered5xx(r)
        \/ req[r].pc = "retry_wait" /\ req'[r].pc # "retry_wait"

C31_LedgerIndependent ==
    [][/\ (retryStates' # retryStates) => RetryRequestStep
       /\ RetryRequestStep => UNCHANGED <<memVars, refreshPromise>>]_vars

\* clearTokens has emptied the credential state and the entry of a retried
\* request is still in the ledger
C31_Witness ==
    /\ \E k \in RetryKeys : retryStates.map[k] # NULL /\ retryStates.objs[retryStates.map[k]] >= 1
    /\ accessToken = NULL
    /\ refreshToken = NULL
    /\ app.pc = "idle"
    /\ storage = EmptyStorage

\* ---- C32: once the credential state in memory is Absent (after a successful
\* clearTokens), it stays Absent until a setTokens called by the application
\* succeeds: a renewal that was in flight when the clear happened does not
\* write its pair when it later settles with success.
C32_AbsentUntilSetTokens ==
    [][(MemAbsent /\ ~MemAbsent') => (app.pc = "set_commit" /\ app'.pc = "idle")]_vars

\* ---- C33: whenever handleUnauthorized invokes the unauthorized callback, the
\* credential state in memory is Absent at that moment, also when the storage
\* removal of its clearTokens has failed.
CallbackInvoked ==
    \/ \E r \in AllReqIds : req[r].pc = "hu_commit" /\ req'[r].pc # "hu_commit"
    \/ app.pc = "init_hu" /\ app'.pc # "init_hu"

C33_AbsentAtCallback ==
    [][CallbackInvoked => MemAbsent']_vars

\* ---- C34: for one request that ends in the unauthenticated outcome (a failed
\* renewal before the send or after a 401, a 401 of the renewal endpoint, or a
\* second 401), the unauthorized callback is invoked exactly once.
\* the renewal that request r awaited ended with the 401 of the renewal
\* endpoint: the response interceptor of the renewal request has run
\* handleUnauthorized (apiClient.ts 150-154) before the callback returned Err
RenewalEndedBy401(r) == req[r].res = "UNAUTHORIZED"

C34_OnceUnlessRenewal401 ==
    \A r \in ReqIds :
        (/\ req[r].pc = "done"
         /\ req[r].out \in {"refresh_failed", "http_401"}
         /\ ~RenewalEndedBy401(r)) => req[r].cb = 1

C34_NoSecondInvocation ==
    \A r \in ReqIds :
        (req[r].pc = "hu_commit" /\ req'[r].pc # "hu_commit") => ~RenewalEndedBy401(r)

C34_CallbackExactlyOnce ==
    /\ []C34_OnceUnlessRenewal401
    /\ [][C34_NoSecondInvocation]_vars

\* ---- C35: for every key the attempt counter of the ledger entry never exceeds
\* maxAttempts, also when several requests with the same key are answered 5xx
\* and overlap inside the backoff delay of retryRequest.
C35_CounterWithinMax ==
    \A k \in RetryKeys :
        retryStates.map[k] # NULL => retryStates.objs[retryStates.map[k]] <= retryAttempts


\* ---- C37: a call of isAccessTokenExpiringSoon made while the access token in
\* memory expires later than the threshold from now answers false, also within
\* one second of an earlier call that answered true.
FarFromExpiry ==
    /\ accessTokenExpiresAt # NULL
    /\ accessTokenExpiresAt # BAD_DATE
    /\ now < accessTokenExpiresAt - DEFAULT_THRESHOLD_MINUTES * Minute

C37_FreshAfterSetTokens ==
    [][(expiryCall' # expiryCall /\ FarFromExpiry) => expiryCall'.result = "false"]_vars


\* ---- C38: whenever the store holds a present pair in memory a proactive
\* refresh timer is active, also when the pair was loaded by initializeTokens.
PairInMemory == accessToken # NULL /\ refreshToken # NULL

C38_TimerWhilePresent == PairInMemory => proactiveRefreshInterval # NULL


\* ---- C39: in the cookie-based client at most one reissue call is in flight
\* at any time, across the request interceptor and the 401 handler.
ReissueInFlight == {r \in ReqIds : req[r].pc \in {"reissue_pre", "reissue_401"}}

C39_SingleReissue == Cardinality(ReissueInFlight) <= 1


\* ---- C36: once setTokens and clearTokens have both settled, the persisted
\* fields are all present or all absent and equal the fields in memory, for
\* every completion order of the per-key storage operations.
PersistedAllOrNone ==
    \/ \A k \in STORAGE_KEYS : storage[k] # NULL
    \/ \A k \in STORAGE_KEYS : storage[k] = NULL

PersistedEqualsMemory ==
    /\ storage["accessToken"] = accessToken
    /\ storage["refreshToken"] = refreshToken
    /\ storage["accessTokenExpiresAt"] = accessTokenExpiresAt
    /\ storage["refreshTokenExpiresAt"] = refreshTokenExpiresAt

C36_ConsistentAfterOverlap ==
    pendingIO = {} => (PersistedAllOrNone /\ PersistedEqualsMemory)

====
